---- MODULE Spec2Model ----
(***************************************************************************)
(* Model of the webhook reconciler of the Intercom -> Discord ticket bot:  *)
(* webhook_endpoint / WebhookHandler (src/webhook_handler.py), the Ticket  *)
(* Store (src/database.py) and the part of IntercomClient the handlers     *)
(* use (src/intercom_client.py).  Every coroutine is cut at its await      *)
(* points: one action is the code between two awaits, so two requests      *)
(* interleave exactly where the event loop can switch between them.        *)
(***************************************************************************)
EXTENDS Integers, Sequences, FiniteSets, TLC

(* ------------------------------ bounds --------------------------------- *)
\* number of conversation parts of a fetched conversation
MaxParts == 3
\* number of messages the Display Surface hands out ids for
MaxMsgs == 2
\* number of ticks of the wall clock read by datetime.now()
MaxClock == 1

(* ------------------------- program constants --------------------------- *)
\* embed description limit used by handle_new_ticket / handle_user_reply
EmbedLimit == 2000

\* the requests that can be in flight at the same time
Slots == {"h1", "h2"}
MsgIds == 1..MaxMsgs
Convs == {"c1"}

\* the topics process_webhook dispatches on, plus one it does not know
KnownTopics == {"conversation.user.created", "conversation.user.replied",
                "conversation.admin.replied", "conversation.admin.closed",
                "conversation.admin.assigned"}
Topics == KnownTopics \cup {"conversation.rating.added"}

\* values of Config.INTERCOM_WEBHOOK_SECRET: "" is "not configured"
Secrets == {"", "s3cret"}

\* rendered body lengths returned by the remote fetch (around EmbedLimit)
BodyLens == {EmbedLimit, EmbedLimit + 1}

(* --------------------------- request inputs ---------------------------- *)
\* A raw request body: what json.loads makes of it, and its topic / data.id
\* ("" stands for an absent or empty field).
ObjectBodies ==
  [json : {"object"}, topic : Topics, id : Convs]
  \cup {[json |-> "object", topic |-> "", id |-> "c1"],
        [json |-> "object", topic |-> "conversation.admin.closed", id |-> ""]}
NotJsonBody == [json |-> "notjson", topic |-> "", id |-> ""]
NotObjectBody == [json |-> "notobject", topic |-> "", id |-> ""]
Bodies == ObjectBodies \cup {NotJsonBody, NotObjectBody}

\* hmac.new(secret, payload, sha256).hexdigest(): an ideal keyed hash, i.e.
\* two digests are equal only when key and payload are equal
HmacSha256Hex(key, payload) == <<key, payload>>

\* The X-Hub-Signature-256 header: absent (the '' default), an ASCII hex
\* string, or a string with non-ASCII characters.
NoSignature == [present |-> FALSE, ascii |-> TRUE, hex |-> <<>>]
NonAsciiSignature == [present |-> TRUE, ascii |-> FALSE, hex |-> <<>>]
HexSignature(key, payload) ==
  [present |-> TRUE, ascii |-> TRUE, hex |-> HmacSha256Hex(key, payload)]

\* bodies that are also sent signed (rightly or wrongly)
SignedBodies ==
  {NotJsonBody,
   [json |-> "object", topic |-> "conversation.user.created", id |-> "c1"]}

\* a body that differs from b in one byte
Mutated(b) == IF b = NotJsonBody THEN NotObjectBody ELSE NotJsonBody

Requests ==
  [body : Bodies, signature : {NoSignature}]
  \cup UNION {[body : {b},
                signature : {HexSignature("s3cret", b), HexSignature("other", b),
                             HexSignature("s3cret", Mutated(b)),
                             NonAsciiSignature}] : b \in SignedBodies}
NoRequest == [body |-> NotJsonBody, signature |-> NoSignature]

(* ------------------------------ state ---------------------------------- *)
VARIABLES
  secret,    \* Config.INTERCOM_WEBHOOK_SECRET
  tickets,   \* the tickets table: ticket id -> row
  channel,   \* the ticket messages (embed + TicketView) on the channel:
             \* message id -> the conversation it renders and its embed title
  nextMsg,   \* next message id the Display Surface hands out
  now,       \* datetime.now()
  h,         \* per request slot: position and locals of the handler
  ui,        \* per interaction slot: position and locals of a button callback
  conversation,  \* a raw conversation as the remote service returns it
  thread,    \* what get_conversation_thread made of it
  bulk,      \* position and locals of process_conversations_in_batches
  button,    \* a quick reply button: its key, its custom_id, the parsed key
  sweep,     \* position and locals of cleanup_old_tickets
  listing    \* position and locals of get_open_conversations, and the
             \* pages the remote service answers with

vars ==
  <<secret, tickets, channel, nextMsg, now, h, ui, conversation, thread, bulk,
    button, sweep, listing>>
\* the variables of the button callbacks, and of the pure functions
uiVars == <<ui>>
pureVars == <<conversation, thread, bulk, button, sweep, listing>>

\* ticket_data before the lookup
NoTicketData ==
  [id |-> "", discord_message_id |-> 0, status |-> "", last_updated |-> 0,
   intercom_conversation_id |-> ""]
NoResp == [status |-> 0, key |-> ""]

\* what the remote service knows of a conversation when it is fetched
RawConversations ==
  [admin_replied : BOOLEAN, starred : BOOLEAN, body_len : BodyLens]
NoConversation == [id |-> "", body_len |-> 0]

Idle ==
  [pc |-> "idle", request |-> NoRequest, topic |-> "", conv |-> "",
   ticket_data |-> NoTicketData, conversation_data |-> NoConversation,
   fresh |-> FALSE, message |-> 0, surface_failed |-> FALSE,
   resp |-> NoResp]

\* the interactions (button clicks) that can be in flight
UiSlots == {"u1"}

\* a button callback before the click: the button it serves, the ids its
\* TicketView holds, what send_reply and close_conversation returned, the
\* remote calls and store and display effects it had so far (in order), the
\* message it is about to send to the actor and the one it did send
UiIdle ==
  [pc |-> "idle", kind |-> "", action |-> <<>>, message |-> 0,
   ticket_id |-> "", conversation_id |-> "", success |-> "",
   close_success |-> "", effects |-> <<>>,
   say |-> "", told |-> "", surface_failed |-> FALSE]

\* no conversation has been handed to get_conversation_thread, and no
\* bulk fetch has been asked for
NoRaw == <<>>
NoThread == [status |-> "none"]
NoBulk == [pc |-> "none"]
NoButton == [pc |-> "none"]
NoSweep == [pc |-> "none"]
NoListing == [pc |-> "none"]

\* the bot after start-up: an empty table, an empty channel, nothing in flight
InitHandlers(secrets) ==
  /\ secret \in secrets
  /\ tickets = [k \in {} |-> NoTicketData]
  /\ channel = [m \in {} |-> [conv |-> "", title |-> ""]]
  /\ nextMsg = 1
  /\ now = 0
  /\ h = [s \in Slots |-> Idle]
  /\ ui = [u \in UiSlots |-> UiIdle]

InitWith(secrets) ==
  /\ InitHandlers(secrets)
  /\ conversation = NoRaw
  /\ thread = NoThread
  /\ bulk = NoBulk
  /\ button = NoButton
  /\ sweep = NoSweep
  /\ listing = NoListing

Init == InitWith(Secrets)

(* --------------------------- Ticket Store ------------------------------ *)
Row(ticket_id, discord_message_id, status, conversation_id) ==
  [id |-> ticket_id, discord_message_id |-> discord_message_id,
   status |-> status, last_updated |-> now,
   intercom_conversation_id |-> conversation_id]

\* mutant: a plain INSERT into a table without the primary key: a second
\* row with the same id is added next to the first
add_ticket_NoPrimaryKey(t, ticket_id, discord_message_id, status, conversation_id) ==
  LET key == IF ticket_id \in DOMAIN t THEN "second row" ELSE ticket_id
  IN [k \in DOMAIN t \cup {key} |->
        IF k = key
          THEN Row(ticket_id, discord_message_id, status, conversation_id)
          ELSE t[k]]

\* INSERT OR REPLACE INTO tickets ... (id is the primary key)
add_ticket(t, ticket_id, discord_message_id, status, conversation_id) ==
  [k \in DOMAIN t \cup {ticket_id} |->
     IF k = ticket_id
       THEN Row(ticket_id, discord_message_id, status, conversation_id)
       ELSE t[k]]

\* mutant: an update that is not idempotent: writing the status the row
\* already has puts the row back to open
update_ticket_status_Toggle(t, ticket_id, status) ==
  [k \in DOMAIN t |->
     IF k = ticket_id
       THEN [t[k] EXCEPT !.status = IF t[k].status = status
                                      THEN "open" ELSE status,
                         !.last_updated = now]
       ELSE t[k]]

\* UPDATE tickets SET status = ?, last_updated = ? WHERE id = ?
update_ticket_status(t, ticket_id, status) ==
  [k \in DOMAIN t |->
     IF k = ticket_id
       THEN [t[k] EXCEPT !.status = status, !.last_updated = now]
       ELSE t[k]]

\* mutant: the lookup without its WHERE clause
get_ticket_by_conversation_AnyRow(t, conversation_id) ==
  t[CHOOSE k \in DOMAIN t : TRUE]

\* SELECT * FROM tickets WHERE intercom_conversation_id = ? ; fetchone()
HasTicketFor(t, conversation_id) ==
  \E k \in DOMAIN t : t[k].intercom_conversation_id = conversation_id
get_ticket_by_conversation(t, conversation_id) ==
  LET k == CHOOSE k \in DOMAIN t :
             t[k].intercom_conversation_id = conversation_id
  IN t[k]

(* -------------------------- Display Surface ---------------------------- *)
\* channel.send(embed=embed, view=view): a new ticket message
channel_send(ch, conversation_id) ==
  [m \in DOMAIN ch \cup {nextMsg} |->
     IF m = nextMsg
       THEN [conv |-> conversation_id, title |-> "New Ticket"]
       ELSE ch[m]]

\* mutant: the refresh posts the updated embed as a new ticket message
message_edit_Repost(ch, message_id) ==
  [m \in DOMAIN ch \cup {nextMsg} |->
     IF m = nextMsg
       THEN [conv |-> ch[message_id].conv, title |-> "Updated Ticket"]
       ELSE ch[m]]

\* message.edit(embed=updated_embed): same message, same view, new embed
message_edit(ch, message_id) ==
  [ch EXCEPT ![message_id].title = "Updated Ticket"]

\* mutant: the delete is never awaited, the message stays
message_delete_Skipped(ch, message_id) == ch

\* message.delete()
message_delete(ch, message_id) ==
  [m \in DOMAIN ch \ {message_id} |-> ch[m]]

(* ------------------------ Remote Conversation Client ------------------- *)
\* the dict get_conversation_thread returns (the keys the handlers read)
get_conversation_thread(raw, conversation_id) ==
  [id |-> conversation_id, body_len |-> raw.body_len]

\* is_conversation_fresh / get_open_conversations: no admin comment, not starred
Fresh(raw) == ~raw.admin_replied /\ ~raw.starred

(* ------------------------------ endpoint ------------------------------- *)
\* the request is accepted and its body read: await request.text()
Receive(s, requests) ==
  /\ h[s].pc \in {"idle", "done"}
  /\ \E rq \in requests :
       h' = [h EXCEPT ![s] = [Idle EXCEPT !.pc = "received", !.request = rq]]
  /\ UNCHANGED <<uiVars, pureVars, secret, tickets, channel, nextMsg, now>>

\* "True", "False", or the TypeError hmac.compare_digest raises for a str
\* with non-ASCII characters
verify_webhook_signature(payload, signature) ==
  IF secret = "" THEN "True"
  ELSE IF ~signature.ascii THEN "TypeError"
  ELSE IF signature.hex = HmacSha256Hex(secret, payload) THEN "True"
  ELSE "False"

\* if signature and not handler.verify_webhook_signature(body, signature)
SignatureCheck(rq) ==
  IF rq.signature.present
    THEN verify_webhook_signature(rq.body, rq.signature)
    ELSE "True"

\* the first await of the handler process_webhook dispatches to
FirstStep(topic) ==
  IF topic = "conversation.user.created" THEN "nt_fetch" ELSE "lookup"

\* the response leaves: web.json_response(result) or web.Response(status=..)
Finish(s, status, key) ==
  [h EXCEPT ![s].pc = "done", ![s].resp = [status |-> status, key |-> key]]

\* webhook_endpoint and process_webhook up to the handler's first await
Endpoint(s) ==
  /\ h[s].pc = "received"
  /\ LET rq == h[s].request
         body == rq.body
     IN h' =
          IF SignatureCheck(rq) = "False" THEN Finish(s, 401, "")
          ELSE IF SignatureCheck(rq) = "TypeError" THEN Finish(s, 500, "")
          ELSE IF body.json = "notjson" THEN Finish(s, 400, "")
          ELSE IF body.json = "notobject" THEN Finish(s, 500, "")
          ELSE IF body.topic = "" \/ body.id = "" THEN Finish(s, 200, "error")
          ELSE IF body.topic \notin KnownTopics
            THEN [h EXCEPT ![s].pc = "done",
                           ![s].topic = body.topic, ![s].conv = body.id,
                           ![s].resp = [status |-> 200, key |-> "info"]]
          ELSE [h EXCEPT ![s].pc = FirstStep(body.topic),
                         ![s].topic = body.topic, ![s].conv = body.id]
  /\ UNCHANGED <<uiVars, pureVars, secret, tickets, channel, nextMsg, now>>

(* --------------------------- handle_new_ticket -------------------------- *)
\* conversation_data.get('is_fresh', True)
is_fresh(conversation_data) ==
  IF "is_fresh" \in DOMAIN conversation_data
    THEN conversation_data.is_fresh
    ELSE TRUE

\* len(conversation_data.get('body', '')) > 2000
LongThread(body_len) == body_len > EmbedLimit

\* await get_conversation_thread(conversation_id), then the freshness test
NewTicketFetch(s) ==
  /\ h[s].pc = "nt_fetch"
  /\ \E ok \in BOOLEAN, raw \in RawConversations :
       h' = IF ~ok THEN Finish(s, 200, "error")
            ELSE [h EXCEPT ![s].conversation_data =
                               get_conversation_thread(raw, h[s].conv),
                           ![s].fresh = Fresh(raw),
                           ![s].pc =
                               IF is_fresh(get_conversation_thread(raw, h[s].conv))
                                 THEN "nt_send" ELSE "done",
                           ![s].resp =
                               IF is_fresh(get_conversation_thread(raw, h[s].conv))
                                 THEN NoResp
                                 ELSE [status |-> 200, key |-> "info"]]
  /\ UNCHANGED <<uiVars, pureVars, secret, tickets, channel, nextMsg, now>>

\* mutant: no try block around the post: a failed send goes on to the
\* upsert with no message
NewTicketSend_FailureGoesOn(s) ==
  /\ h[s].pc = "nt_send"
  /\ \E ok \in BOOLEAN :
       IF ~ok
         THEN /\ h' = [h EXCEPT ![s].pc = "nt_add"]
              /\ UNCHANGED <<channel, nextMsg>>
         ELSE /\ nextMsg <= MaxMsgs
              /\ channel' = channel_send(channel, h[s].conv)
              /\ nextMsg' = nextMsg + 1
              /\ h' = [h EXCEPT ![s].pc = "nt_add", ![s].message = nextMsg]
  /\ UNCHANGED <<uiVars, pureVars, secret, tickets, now>>

\* await discord_channel.send(embed=embed, view=view); for a long thread
\* the call _send_full_conversation_thread(channel, data, conversation_id)
\* passes one argument too many and raises TypeError
NewTicketSend(s) ==
  /\ h[s].pc = "nt_send"
  /\ \E ok \in BOOLEAN :
       IF ~ok
         THEN /\ h' = Finish(s, 200, "error")
              /\ UNCHANGED <<channel, nextMsg>>
         ELSE /\ nextMsg <= MaxMsgs
              /\ channel' = channel_send(channel, h[s].conv)
              /\ nextMsg' = nextMsg + 1
              /\ h' = IF LongThread(h[s].conversation_data.body_len)
                        THEN [h EXCEPT ![s].pc = "done",
                                       ![s].message = nextMsg,
                                       ![s].resp = [status |-> 200,
                                                    key |-> "error"]]
                        ELSE [h EXCEPT ![s].pc = "nt_add",
                                       ![s].message = nextMsg]
  /\ UNCHANGED <<uiVars, pureVars, secret, tickets, now>>

\* await db_manager.add_ticket(str(conversation_id), message.id, 'open', id)
NewTicketAdd(s) ==
  /\ h[s].pc = "nt_add"
  /\ tickets' = add_ticket(tickets, h[s].conv, h[s].message, "open", h[s].conv)
  /\ h' = Finish(s, 200, "success")
  /\ UNCHANGED <<uiVars, pureVars, secret, channel, nextMsg, now>>

(* ------------------- handlers of tickets known locally ------------------ *)
\* mutant: the assignment handler removes the message like the close handler
AfterLookup_AssignedRemoves(topic) ==
  IF topic = "conversation.user.replied" THEN "ur_fetch" ELSE "rm_fetchmsg"

\* what the handler of a topic does after it found the ticket
AfterLookup(topic) ==
  IF topic = "conversation.user.replied" THEN "ur_fetch"
  ELSE IF topic = "conversation.admin.assigned" THEN "update"
  ELSE "rm_fetchmsg"

\* mutant: the assignment handler puts the ticket back to open
StatusFor_AssignedReopens(topic) ==
  IF topic = "conversation.user.replied" THEN "user_replied"
  ELSE IF topic = "conversation.admin.replied" THEN "admin_replied"
  ELSE IF topic = "conversation.admin.closed" THEN "closed"
  ELSE "open"

\* the status the handler of a topic writes
StatusFor(topic) ==
  IF topic = "conversation.user.replied" THEN "user_replied"
  ELSE IF topic = "conversation.admin.replied" THEN "admin_replied"
  ELSE IF topic = "conversation.admin.closed" THEN "closed"
  ELSE "assigned"

\* mutant: a ticket that is not found is answered as an error
Lookup_NotFoundIsError(s) ==
  /\ h[s].pc = "lookup"
  /\ h' = IF ~HasTicketFor(tickets, h[s].conv)
            THEN Finish(s, 200, "error")
            ELSE [h EXCEPT ![s].pc = AfterLookup(h[s].topic),
                           ![s].ticket_data =
                               get_ticket_by_conversation(tickets, h[s].conv)]
  /\ UNCHANGED <<uiVars, pureVars, secret, tickets, channel, nextMsg, now>>

\* ticket_data = await db_manager.get_ticket_by_conversation(conversation_id)
Lookup(s) ==
  /\ h[s].pc = "lookup"
  /\ h' = IF ~HasTicketFor(tickets, h[s].conv)
            THEN Finish(s, 200, "info")
            ELSE [h EXCEPT ![s].pc = AfterLookup(h[s].topic),
                           ![s].ticket_data =
                               get_ticket_by_conversation(tickets, h[s].conv)]
  /\ UNCHANGED <<uiVars, pureVars, secret, tickets, channel, nextMsg, now>>

\* mutant: the result of the fetch is not tested, the handler goes on to
\* the status update without the conversation
UserReplyFetch_FailureGoesOn(s) ==
  /\ h[s].pc = "ur_fetch"
  /\ \E ok \in BOOLEAN, raw \in RawConversations :
       h' = IF ~ok THEN [h EXCEPT ![s].pc = "update"]
            ELSE [h EXCEPT ![s].pc = "ur_fetchmsg",
                           ![s].conversation_data =
                               get_conversation_thread(raw, h[s].conv)]
  /\ UNCHANGED <<uiVars, pureVars, secret, tickets, channel, nextMsg, now>>

\* handle_user_reply: await get_conversation_thread(conversation_id)
UserReplyFetch(s) ==
  /\ h[s].pc = "ur_fetch"
  /\ \E ok \in BOOLEAN, raw \in RawConversations :
       h' = IF ~ok THEN Finish(s, 200, "error")
            ELSE [h EXCEPT ![s].pc = "ur_fetchmsg",
                           ![s].conversation_data =
                               get_conversation_thread(raw, h[s].conv)]
  /\ UNCHANGED <<uiVars, pureVars, secret, tickets, channel, nextMsg, now>>

\* a Display Surface call on a message succeeds only if the message is still
\* there (else discord.NotFound) and the surface answers (else HTTPException)
DisplayOk(ok, message_id) == ok /\ message_id \in DOMAIN channel

\* mutant: no try block around the display calls, a message that cannot
\* be fetched ends the handler with an error
UserReplyFetchMessage_FailureIsError(s) ==
  /\ h[s].pc = "ur_fetchmsg"
  /\ \E ok \in BOOLEAN :
       h' = IF DisplayOk(ok, h[s].ticket_data.discord_message_id)
              THEN [h EXCEPT ![s].pc = "ur_edit"]
              ELSE Finish(s, 200, "error")
  /\ UNCHANGED <<uiVars, pureVars, secret, tickets, channel, nextMsg, now>>

\* handle_user_reply: message = await channel.fetch_message(...)
UserReplyFetchMessage(s) ==
  /\ h[s].pc = "ur_fetchmsg"
  /\ \E ok \in BOOLEAN :
       h' = [h EXCEPT ![s].pc =
               IF DisplayOk(ok, h[s].ticket_data.discord_message_id)
                 THEN "ur_edit" ELSE "update",
                      ![s].surface_failed = @ \/ ~ok]
  /\ UNCHANGED <<uiVars, pureVars, secret, tickets, channel, nextMsg, now>>

\* handle_user_reply: await message.edit(embed=updated_embed); the message
\* keeps its id and its view
UserReplyEdit(s) ==
  /\ h[s].pc = "ur_edit"
  /\ \E ok \in BOOLEAN :
       /\ channel' = IF DisplayOk(ok, h[s].ticket_data.discord_message_id)
                       THEN message_edit(channel,
                                         h[s].ticket_data.discord_message_id)
                       ELSE channel
       /\ h' = [h EXCEPT ![s].pc =
                  IF DisplayOk(ok, h[s].ticket_data.discord_message_id)
                       /\ LongThread(h[s].conversation_data.body_len)
                    THEN "ur_notify" ELSE "update",
                         ![s].surface_failed = @ \/ ~ok]
  /\ UNCHANGED <<uiVars, pureVars, secret, tickets, nextMsg, now>>

\* handle_user_reply, long thread: channel.send(notification) and
\* _send_full_conversation_thread(channel, data): messages without a view,
\* whose failure is swallowed like every other failure of the try block
UserReplyNotify(s) ==
  /\ h[s].pc = "ur_notify"
  /\ \E ok \in BOOLEAN :
       h' = [h EXCEPT ![s].pc = "update", ![s].surface_failed = @ \/ ~ok]
  /\ UNCHANGED <<uiVars, pureVars, secret, tickets, channel, nextMsg, now>>

\* handle_admin_reply / handle_ticket_closed: await channel.fetch_message(...)
RemoveFetchMessage(s) ==
  /\ h[s].pc = "rm_fetchmsg"
  /\ \E ok \in BOOLEAN :
       h' = [h EXCEPT ![s].pc =
               IF DisplayOk(ok, h[s].ticket_data.discord_message_id)
                 THEN "rm_delete" ELSE "update",
                      ![s].surface_failed = @ \/ ~ok]
  /\ UNCHANGED <<uiVars, pureVars, secret, tickets, channel, nextMsg, now>>

\* handle_admin_reply / handle_ticket_closed: await message.delete()
RemoveDelete(s) ==
  /\ h[s].pc = "rm_delete"
  /\ \E ok \in BOOLEAN :
       /\ channel' = IF DisplayOk(ok, h[s].ticket_data.discord_message_id)
                       THEN message_delete(channel,
                                           h[s].ticket_data.discord_message_id)
                       ELSE channel
       /\ h' = [h EXCEPT ![s].pc = "update", ![s].surface_failed = @ \/ ~ok]
  /\ UNCHANGED <<uiVars, pureVars, secret, tickets, nextMsg, now>>

\* await db_manager.update_ticket_status(ticket_data['id'], <status>)
UpdateStatus(s) ==
  /\ h[s].pc = "update"
  /\ tickets' = update_ticket_status(tickets, h[s].ticket_data.id,
                                     StatusFor(h[s].topic))
  /\ h' = Finish(s, 200, "success")
  /\ UNCHANGED <<uiVars, pureVars, secret, channel, nextMsg, now>>

(* --------------------------- button callbacks -------------------------- *)
\* Config.QUICK_REPLIES: the definition the configuration ships, and one
\* whose close_ticket flag is set.  A key is written as its parts between
\* underscores: "no_robux" is <<"no", "robux">>.
QUICK_REPLIES ==
  (<<"no", "robux">> :> [close_ticket |-> FALSE])
  @@ (<<"resolved">> :> [close_ticket |-> TRUE])

\* str(conversation_id), split at its underscores
IdParts(ticket_id) == <<ticket_id>>

\* TicketView.__init__: custom_id = f"quick_reply_{key}_{ticket_id}", as
\* the parts between its underscores (id_parts are those of the ticket id)
custom_id(key, id_parts) == <<"quick", "reply">> \o key \o id_parts

\* quick_reply_callback: parts = button_id.split("_"); the key is
\* "_".join(parts[2:-1]) when there are at least 4 parts
ParseAction(parts) ==
  IF Len(parts) >= 4 THEN SubSeq(parts, 3, Len(parts) - 1)
  ELSE IF Len(parts) > 2 THEN <<parts[3]>>
  ELSE <<"unknown">>

ButtonKinds == {"quick", "custom", "close"}

\* outcomes of a call of the remote service: it returns True (status 200),
\* returns False (any other status), or the connection fails
RemoteOutcomes == {"True", "False", "ClientError"}

UiLog(u, effect) == Append(ui[u].effects, effect)

\* the actor clicks a button of a live ticket message (for Custom Reply:
\* submits the modal); the callback runs up to its first await
UiClick(u) ==
  /\ ui[u].pc \in {"idle", "done"}
  /\ \E m \in DOMAIN channel, kind \in ButtonKinds, key \in DOMAIN QUICK_REPLIES :
       LET ticket_id == channel[m].conv
           action == IF kind = "quick"
                       THEN ParseAction(custom_id(key, IdParts(ticket_id)))
                       ELSE <<>>
           known == kind # "quick" \/ action \in DOMAIN QUICK_REPLIES
       IN ui' = [ui EXCEPT ![u] =
                   [UiIdle EXCEPT !.pc = IF ~known THEN "respond"
                                         ELSE IF kind = "close" THEN "close"
                                         ELSE "send",
                                  !.say = IF known THEN "" ELSE "unknown",
                                  !.kind = kind, !.action = action,
                                  !.message = m, !.ticket_id = ticket_id,
                                  !.conversation_id = channel[m].conv]]
  /\ UNCHANGED <<pureVars, secret, tickets, channel, nextMsg, now, h>>

\* mutant: the result of send_reply is not looked at
UiSend_IgnoresFailure(u) ==
  /\ ui[u].pc = "send"
  /\ \E r \in RemoteOutcomes :
       ui' = [ui EXCEPT ![u].effects = UiLog(u, "reply"),
                        ![u].success = r,
                        ![u].pc = "mark_replied"]
  /\ UNCHANGED <<pureVars, secret, tickets, channel, nextMsg, now, h>>

\* success = await intercom_client.send_reply(conversation_id, reply, admin)
UiSend(u) ==
  /\ ui[u].pc = "send"
  /\ \E r \in RemoteOutcomes :
       ui' = [ui EXCEPT
                ![u].effects = UiLog(u, "reply"),
                ![u].success = r,
                ![u].pc = IF r = "True" THEN "mark_replied"
                          ELSE IF r = "ClientError" /\ ui[u].kind = "custom"
                            THEN "done"
                          ELSE "respond",
                ![u].say = IF r = "True" THEN ""
                           ELSE IF r = "False" THEN "failed"
                           ELSE IF ui[u].kind = "custom" THEN "" ELSE "error"]
  /\ UNCHANGED <<pureVars, secret, tickets, channel, nextMsg, now, h>>

\* mutant: the status is not written after the reply was sent
UiMarkReplied_NoWrite(u) ==
  /\ ui[u].pc = "mark_replied"
  /\ LET closes == /\ ui[u].kind = "quick"
                   /\ QUICK_REPLIES[ui[u].action].close_ticket
     IN ui' = [ui EXCEPT ![u].effects = UiLog(u, "replied"),
                         ![u].pc = IF closes THEN "close" ELSE "respond",
                         ![u].say = IF closes THEN "" ELSE "sent"]
  /\ UNCHANGED <<pureVars, secret, tickets, channel, nextMsg, now, h>>

\* await db_manager.update_ticket_status(ticket_id, "replied")
UiMarkReplied(u) ==
  /\ ui[u].pc = "mark_replied"
  /\ tickets' = update_ticket_status(tickets, ui[u].ticket_id, "replied")
  /\ LET closes == /\ ui[u].kind = "quick"
                   /\ QUICK_REPLIES[ui[u].action].close_ticket
     IN ui' = [ui EXCEPT ![u].effects = UiLog(u, "replied"),
                         ![u].pc = IF closes THEN "close" ELSE "respond",
                         ![u].say = IF closes THEN "" ELSE "sent"]
  /\ UNCHANGED <<pureVars, secret, channel, nextMsg, now, h>>

\* mutant: the result of close_conversation is not looked at
UiClose_IgnoresFailure(u) ==
  /\ ui[u].pc = "close"
  /\ \E r \in RemoteOutcomes :
       ui' = [ui EXCEPT ![u].effects = UiLog(u, "close"),
                        ![u].close_success = r,
                        ![u].pc = "mark_closed"]
  /\ UNCHANGED <<pureVars, secret, tickets, channel, nextMsg, now, h>>

\* close_success = await intercom_client.close_conversation(conversation_id,
\* admin), of the quick reply and of the Close Ticket button
UiClose(u) ==
  /\ ui[u].pc = "close"
  /\ \E r \in RemoteOutcomes :
       ui' = [ui EXCEPT
                ![u].effects = UiLog(u, "close"),
                ![u].close_success = r,
                ![u].pc = IF r = "True" THEN "mark_closed" ELSE "respond",
                ![u].say = IF r = "True" THEN ""
                           ELSE IF r = "ClientError" THEN "error"
                           ELSE IF ui[u].kind = "quick"
                             THEN "sent_close_failed"
                           ELSE "close_failed"]
  /\ UNCHANGED <<pureVars, secret, tickets, channel, nextMsg, now, h>>

\* mutant: closed is written only over the status the callback wrote itself
UiMarkClosed_IfStillReplied(u) ==
  /\ ui[u].pc = "mark_closed"
  /\ tickets' = IF /\ ui[u].ticket_id \in DOMAIN tickets
                   /\ tickets[ui[u].ticket_id].status = "replied"
                  THEN update_ticket_status(tickets, ui[u].ticket_id, "closed")
                  ELSE tickets
  /\ ui' = [ui EXCEPT ![u].effects = UiLog(u, "closed"),
                      ![u].pc = IF ui[u].kind = "quick"
                                  THEN "respond" ELSE "delete",
                      ![u].say = IF ui[u].kind = "quick"
                                   THEN "sent_closed" ELSE ""]
  /\ UNCHANGED <<pureVars, secret, channel, nextMsg, now, h>>

\* await db_manager.update_ticket_status(ticket_id, "closed")
UiMarkClosed(u) ==
  /\ ui[u].pc = "mark_closed"
  /\ tickets' = update_ticket_status(tickets, ui[u].ticket_id, "closed")
  /\ ui' = [ui EXCEPT ![u].effects = UiLog(u, "closed"),
                      ![u].pc = IF ui[u].kind = "quick"
                                  THEN "respond" ELSE "delete",
                      ![u].say = IF ui[u].kind = "quick"
                                   THEN "sent_closed" ELSE ""]
  /\ UNCHANGED <<pureVars, secret, channel, nextMsg, now, h>>

\* await interaction.response.send_message(...): the actor is told say.  If
\* the call fails inside the try of quick_reply_callback / close_ticket, the
\* except clause tries once to tell the error; a failure of that, or of the
\* modal's send, leaves the callback.
UiRespond(u) ==
  /\ ui[u].pc = "respond"
  /\ \E ok \in BOOLEAN :
       ui' = [ui EXCEPT
                ![u].told = IF ok THEN ui[u].say ELSE @,
                ![u].surface_failed = @ \/ ~ok,
                ![u].say = IF ~ok /\ ui[u].kind # "custom" THEN "error" ELSE @,
                ![u].pc =
                  IF ok THEN IF ui[u].kind = "quick" /\ ui[u].say = "sent_closed"
                               THEN "delete" ELSE "done"
                  ELSE IF ui[u].kind # "custom" /\ ui[u].say # "error"
                    THEN "respond"
                  ELSE "done"]
  /\ UNCHANGED <<pureVars, secret, tickets, channel, nextMsg, now, h>>

\* mutant: discord.NotFound is not passed over: a message that is already
\* gone is a failure like any other
UiDelete_NotFoundIsError(u) ==
  /\ ui[u].pc = "delete"
  /\ \E ok \in BOOLEAN :
       LET there == ui[u].message \in DOMAIN channel
           failed == ~there \/ ~ok
       IN /\ channel' = IF ~failed
                          THEN message_delete(channel, ui[u].message)
                          ELSE channel
          /\ ui' = [ui EXCEPT
                      ![u].effects = IF ~failed THEN UiLog(u, "delete") ELSE @,
                      ![u].surface_failed = @ \/ (there /\ ~ok),
                      ![u].say = IF ui[u].kind = "quick" THEN @
                                 ELSE IF failed THEN "error" ELSE "closed",
                      ![u].pc = IF ui[u].kind = "quick"
                                  THEN "done" ELSE "respond"]
  /\ UNCHANGED <<pureVars, secret, tickets, nextMsg, now, h>>

\* await interaction.message.delete(): discord.NotFound is passed over; any
\* other failure goes to the except clause, whose send_message raises in
\* quick_reply_callback (the interaction was already answered) and tells the
\* error in close_ticket
UiDelete(u) ==
  /\ ui[u].pc = "delete"
  /\ \E ok \in BOOLEAN :
       LET there == ui[u].message \in DOMAIN channel
           failed == there /\ ~ok
       IN /\ channel' = IF there /\ ok
                          THEN message_delete(channel, ui[u].message)
                          ELSE channel
          /\ ui' = [ui EXCEPT
                      ![u].effects = IF there /\ ok
                                       THEN UiLog(u, "delete") ELSE @,
                      ![u].surface_failed = @ \/ failed,
                      ![u].say = IF ui[u].kind = "quick" THEN @
                                 ELSE IF failed THEN "error" ELSE "closed",
                      ![u].pc = IF ui[u].kind = "quick"
                                  THEN "done" ELSE "respond"]
  /\ UNCHANGED <<pureVars, secret, tickets, nextMsg, now, h>>

(* ------------------------------- clock --------------------------------- *)
Tick ==
  /\ now < MaxClock
  /\ now' = now + 1
  /\ UNCHANGED <<uiVars, pureVars, secret, tickets, channel, nextMsg, h>>

(* ------------------------- thread reconstruction ----------------------- *)
\* A created_at value of the remote service: the key is absent, JSON null, an
\* integer, a string of digits (written as its digits), an ISO 8601 string
\* (written as the epoch second it denotes), or any other string.
TsAbsent == [type |-> "absent", digits |-> <<>>, n |-> 0]
TsNull == [type |-> "null", digits |-> <<>>, n |-> 0]
TsInt(n) == [type |-> "int", digits |-> <<>>, n |-> n]
TsDigits(d) == [type |-> "digits", digits |-> d, n |-> 0]
TsIso(epoch) == [type |-> "iso", digits |-> <<>>, n |-> epoch]
TsText == [type |-> "text", digits |-> <<>>, n |-> 0]

\* int(timestamp) of a string of digits
RECURSIVE IntOf(_)
IntOf(d) ==
  IF d = <<>> THEN 0
  ELSE 10 * IntOf(SubSeq(d, 1, Len(d) - 1)) + d[Len(d)]

\* _parse_timestamp: 0 for a falsy value, an integer as it is, the value of
\* an ISO or digit string, 0 for a string that does not parse and for any
\* other type
_parse_timestamp(timestamp) ==
  IF timestamp.type = "null" THEN 0
  ELSE IF timestamp.type = "int" THEN timestamp.n
  ELSE IF timestamp.type = "iso" THEN timestamp.n
  ELSE IF timestamp.type = "digits" THEN IntOf(timestamp.digits)
  ELSE 0

\* part.get("created_at", "Unknown")
created_at(part) ==
  IF part.created_at.type = "absent" THEN TsText ELSE part.created_at

\* A body is written as its tokens: markup tags, image tags (with the src
\* they carry, "" for none), words and white space.
Tag == [k |-> "tag", s |-> "p"]
Img(src) == [k |-> "img", s |-> src]
Word(w) == [k |-> "word", s |-> w]
Space == [k |-> "space", s |-> " "]

\* str.strip()
RECURSIVE strip(_)
strip(b) ==
  IF b = <<>> THEN b
  ELSE IF b[1].k = "space" THEN strip(Tail(b))
  ELSE IF b[Len(b)].k = "space" THEN strip(SubSeq(b, 1, Len(b) - 1))
  ELSE b

\* re.sub(r'\s+', ' ', text): runs of white space become one space
RECURSIVE Collapse(_)
Collapse(b) ==
  IF Len(b) < 2 THEN b
  ELSE IF b[1].k = "space" /\ b[2].k = "space" THEN Collapse(Tail(b))
  ELSE <<b[1]>> \o Collapse(Tail(b))

\* _clean_html: the tags are removed, white space collapsed and stripped
_clean_html(b) ==
  strip(Collapse(SelectSeq(b, LAMBDA t : t.k \in {"word", "space"})))

\* the result of the Content Extractor: None, or a string (its tokens)
Null == [null |-> TRUE, text |-> <<>>]
Content(text) == [null |-> FALSE, text |-> text]
Link(t) == [k |-> "link", s |-> t.s]

system_message_types ==
  {"language_detection_details", "conversation_attribute_updated_by_admin",
   "conversation_attribute_updated_by_user",
   "conversation_attribute_updated_by_bot",
   "conversation_attribute_updated_by_team",
   "conversation_attribute_updated_by_workspace",
   "conversation_attribute_updated_by_system"}

\* mutant: the language detection event is not a system message
is_system_message_NotLanguage(part_type) ==
  part_type \in system_message_types \ {"language_detection_details"}

\* if part_type in system_message_types
is_system_message(part_type) == part_type \in system_message_types

\* " | ", the separator of the image links and attachment descriptions
Bar == [k |-> "bar", s |-> " | "]

\* " | ".join(tokens)
RECURSIVE BarJoin(_)
BarJoin(tokens) ==
  IF Len(tokens) < 2 THEN tokens
  ELSE <<tokens[1], Bar>> \o BarJoin(Tail(tokens))

\* re.findall(img_pattern, body), one link per match, joined by " | ": an
\* image tag matches when it carries a quoted src (s is "" when it has none)
image_links(body) ==
  LET img_matches == SelectSeq(body, LAMBDA t : t.k = "img" /\ t.s # "")
  IN BarJoin([i \in 1..Len(img_matches) |-> Link(img_matches[i])])

\* An attachment is written with "" for a name or url it does not carry
\* and with size 0 for no size.
KiB == 1024
MiB == 1024 * 1024

\* the human readable size of a file
size_str(file_size) ==
  IF file_size < KiB THEN ToString(file_size) \o " B"
  ELSE IF file_size < MiB THEN ToString(file_size \div KiB) \o " KB"
  ELSE ToString(file_size \div MiB) \o " MB"

\* the description of one attachment; k stands for the pictogram in front
attachment_description(attachment) ==
  IF attachment.type = "image"
    THEN LET image_name == IF attachment.name = "" THEN "Unnamed image"
                           ELSE attachment.name
         IN IF attachment.url # ""
              THEN [k |-> "image",
                    s |-> "[" \o image_name \o "](" \o attachment.url \o ")"]
              ELSE [k |-> "image", s |-> image_name]
  ELSE IF attachment.type = "file"
    THEN LET file_name == IF attachment.name = "" THEN "Unnamed file"
                          ELSE attachment.name
         IN IF attachment.size # 0
              THEN [k |-> "file",
                    s |-> file_name \o " (" \o size_str(attachment.size)
                          \o ")"]
              ELSE [k |-> "file", s |-> file_name]
  ELSE [k |-> "file",
        s |-> IF attachment.name = "" THEN "Attachment" ELSE attachment.name]

\* one description per attachment, joined by " | "
attachment_descriptions(attachments) ==
  BarJoin([i \in 1..Len(attachments) |->
             attachment_description(attachments[i])])

\* mutant: a part of any other type gets a placeholder too
placeholder_ForEveryType(part_type) ==
  IF part_type = "comment" THEN Content(<<Word("[Comment]")>>)
  ELSE IF part_type = "assignment"
    THEN Content(<<Word("[Conversation assigned]")>>)
  ELSE IF part_type = "close" THEN Content(<<Word("[Conversation closed]")>>)
  ELSE IF part_type = "open" THEN Content(<<Word("[Conversation opened]")>>)
  ELSE Content(<<Word("[" \o part_type \o "]")>>)

\* the placeholder of a part without body and attachments, None for a part
\* type that has none
placeholder(part_type) ==
  IF part_type = "comment" THEN Content(<<Word("[Comment]")>>)
  ELSE IF part_type = "assignment"
    THEN Content(<<Word("[Conversation assigned]")>>)
  ELSE IF part_type = "close" THEN Content(<<Word("[Conversation closed]")>>)
  ELSE IF part_type = "open" THEN Content(<<Word("[Conversation opened]")>>)
  ELSE Null

\* _extract_message_content
_extract_message_content(part) ==
  LET body == part.body
  IN IF is_system_message(part.part_type) THEN Null
     ELSE IF strip(body) # <<>> /\ strip(body) # <<Word("None")>>
       THEN IF image_links(body) # <<>> THEN Content(image_links(body))
            ELSE Content(_clean_html(body))
     ELSE IF part.attachments # <<>>
       THEN Content(attachment_descriptions(part.attachments))
     ELSE placeholder(part.part_type)

\* "if message_content:" None and the empty string are both false
Truthy(content) == ~content.null /\ content.text # <<>>

\* An author is written with "" for a key it does not carry.
NoAuthor == [name |-> "", email |-> "", id |-> "", type |-> "unknown"]

\* part.get("author", {}), with author.get("type", "unknown")
AuthorOf(part) ==
  IF "author" \in DOMAIN part THEN part.author ELSE NoAuthor

\* str.title() of an author type
Title(author_type) ==
  IF author_type = "unknown" THEN "Unknown"
  ELSE IF author_type = "team" THEN "Team"
  ELSE author_type

\* _get_author_display_name: name, else email, else id, else a label of
\* the author type
_get_author_display_name(author, author_type) ==
  IF author.name # "" THEN author.name
  ELSE IF author.email # "" THEN author.email
  ELSE IF author.id # "" THEN author.id
  ELSE IF author_type = "lead" THEN "Lead User"
  ELSE IF author_type = "user" THEN "User"
  ELSE IF author_type = "admin" THEN "Admin"
  ELSE IF author_type = "bot" THEN "Fin (AI Bot)"
  ELSE Title(author_type) \o " User"

\* the entry appended to thread_messages; fetch_index (0 for the initial
\* message, i for the i-th part) is not a key of the dict: it names the raw
\* part the entry was made of
Entry(part, fetch_index) ==
  [author |-> _get_author_display_name(AuthorOf(part), AuthorOf(part).type),
   author_type |-> AuthorOf(part).type,
   message |-> _extract_message_content(part).text,
   timestamp |-> created_at(part),
   timestamp_sort |-> _parse_timestamp(created_at(part)),
   is_initial |-> fetch_index = 0,
   part_type |-> part.part_type,
   fetch_index |-> fetch_index]

\* the initial message is looked at when it has a body or attachments
InitialRetained(initial) ==
  /\ initial.body # <<>> \/ initial.attachments # <<>>
  /\ Truthy(_extract_message_content(initial))

\* the entries of the parts i..Len(parts) that have content, in fetch order
RECURSIVE PartEntries(_, _)
PartEntries(parts, i) ==
  IF i > Len(parts) THEN <<>>
  ELSE (IF Truthy(_extract_message_content(parts[i]))
          THEN <<Entry(parts[i], i)>> ELSE <<>>)
       \o PartEntries(parts, i + 1)

\* list.sort(key=timestamp_sort): ascending and stable
RECURSIVE Insert(_, _)
Insert(sorted, e) ==
  IF sorted = <<>> THEN <<e>>
  ELSE IF sorted[Len(sorted)].timestamp_sort <= e.timestamp_sort
    THEN Append(sorted, e)
  ELSE Append(Insert(SubSeq(sorted, 1, Len(sorted) - 1), e),
              sorted[Len(sorted)])
RECURSIVE StableSort(_)
StableSort(msgs) ==
  IF msgs = <<>> THEN <<>>
  ELSE Insert(StableSort(SubSeq(msgs, 1, Len(msgs) - 1)), msgs[Len(msgs)])

\* The rendered body is written as its tokens: the bold author heading
\* "**author:**", the number "i." of a message in a block, the tokens of the
\* messages, the line break and the block separator "\n\n---\n\n".
Heading(author) == [k |-> "heading", s |-> author]
Number(i) == [k |-> "number", s |-> ToString(i)]
Newline == [k |-> "newline", s |-> ""]
Separator == [k |-> "separator", s |-> "---"]

\* sep.join(strings)
RECURSIVE Join(_, _)
Join(strings, sep) ==
  IF strings = <<>> THEN <<>>
  ELSE IF Len(strings) = 1 THEN strings[1]
  ELSE strings[1] \o sep \o Join(Tail(strings), sep)

\* mutant: a block of one message is numbered too
_format_message_group_AlwaysNumbered(author, messages) ==
  <<Heading(author), Newline>>
  \o Join([i \in 1..Len(messages) |-> <<Number(i)>> \o messages[i]],
           <<Newline>>)

\* _format_message_group: one message follows the heading on its line,
\* several are numbered from 1, one per line
_format_message_group(author, messages) ==
  IF Len(messages) = 1 THEN <<Heading(author)>> \o messages[1]
  ELSE <<Heading(author), Newline>>
       \o Join([i \in 1..Len(messages) |-> <<Number(i)>> \o messages[i]],
                <<Newline>>)

\* the loop of _format_conversation_thread: current_author is "" for None
RECURSIVE FormatLoop(_, _, _, _)
FormatLoop(messages, current_author, current_messages, formatted_parts) ==
  IF messages = <<>>
    THEN IF current_author # "" /\ current_messages # <<>>
           THEN Append(formatted_parts,
                       _format_message_group(current_author,
                                             current_messages))
           ELSE formatted_parts
  ELSE LET msg == Head(messages)
           flush == current_author # "" /\ current_author # msg.author
       IN FormatLoop(Tail(messages), msg.author,
                     Append(IF flush THEN <<>> ELSE current_messages,
                            msg.message),
                     IF flush
                       THEN Append(formatted_parts,
                                   _format_message_group(current_author,
                                                         current_messages))
                       ELSE formatted_parts)

\* _format_conversation_thread
_format_conversation_thread(messages) ==
  IF messages = <<>> THEN <<Word("No messages in conversation")>>
  ELSE Join(FormatLoop(messages, "", <<>>, <<>>), <<Separator>>)

\* get_conversation_thread, from the fetched conversation to the dict it
\* returns (the keys body, message_count and thread_messages)
thread_messages(conv) ==
  StableSort((IF InitialRetained(conv.source)
                THEN <<Entry(conv.source, 0)>> ELSE <<>>)
             \o PartEntries(conv.parts, 1))
ConversationThread(conv) ==
  [status |-> "ok",
   body |-> _format_conversation_thread(thread_messages(conv)),
   message_count |-> Len(thread_messages(conv)),
   thread_messages |-> thread_messages(conv)]

\* the raw parts the reconstruction is tried on: a comment with text under
\* every kind of timestamp, and every kind of content under one timestamp
Timestamps ==
  {TsAbsent, TsNull, TsInt(1), TsInt(2), TsDigits(<<0>>), TsDigits(<<0, 2>>),
   TsIso(0 - 1), TsIso(3), TsText}
File == [type |-> "file", name |-> "a.pdf", url |-> "", size |-> 0]
RawBodies ==
  {<<>>, <<Space>>, <<Word("None")>>, <<Tag>>, <<Tag, Space, Tag>>,
   <<Tag, Word("hi"), Tag>>, <<Img("u")>>}
RawParts ==
  [part_type : {"comment"}, body : {<<Word("hi")>>}, attachments : {<<>>},
   created_at : Timestamps]
  \cup [part_type : {"comment"}, body : RawBodies, attachments : {<<>>},
        created_at : {TsInt(1)}]
  \cup [part_type : {"note"}, body : {<<>>, <<Tag>>},
        attachments : {<<>>, <<File>>}, created_at : {TsInt(1)}]
  \cup [part_type : {"language_detection_details"}, body : {<<Word("hi")>>},
        attachments : {<<File>>}, created_at : {TsInt(1)}]
NoSource ==
  [part_type |-> "", body |-> <<>>, attachments |-> <<>>,
   created_at |-> TsAbsent]
Sources ==
  {NoSource,
   [NoSource EXCEPT !.body = <<Word("hello")>>, !.created_at = TsInt(1)],
   [NoSource EXCEPT !.body = <<Tag>>, !.created_at = TsInt(1)],
   [NoSource EXCEPT !.attachments = <<File>>]}

RECURSIVE SeqsUpTo(_, _)
SeqsUpTo(S, n) ==
  IF n = 0 THEN {<<>>}
  ELSE SeqsUpTo(S, n - 1)
       \cup {Append(q, x) : q \in {q \in SeqsUpTo(S, n - 1) : Len(q) = n - 1},
                             x \in S}

(* ---------------------------- specification ---------------------------- *)
\* the steps of the requests served in the slots S
NextOn(S) ==
  \/ \E s \in S : Receive(s, Requests)
  \/ \E s \in S : Endpoint(s)
  \/ \E s \in S : NewTicketFetch(s)
  \/ \E s \in S : NewTicketSend(s)
  \/ \E s \in S : NewTicketAdd(s)
  \/ \E s \in S : Lookup(s)
  \/ \E s \in S : UserReplyFetch(s)
  \/ \E s \in S : UserReplyFetchMessage(s)
  \/ \E s \in S : UserReplyEdit(s)
  \/ \E s \in S : UserReplyNotify(s)
  \/ \E s \in S : RemoveFetchMessage(s)
  \/ \E s \in S : RemoveDelete(s)
  \/ \E s \in S : UpdateStatus(s)
  \/ Tick

\* one request at a time: each webhook is answered before the next arrives
Next == NextOn({"h1"})
Spec == Init /\ [][Next]_vars

\* the webhooks that arrive while the actors use the buttons: unsigned
\* requests for the topics process_webhook handles
UiRequests ==
  [body : [json : {"object"}, topic : KnownTopics, id : Convs],
   signature : {NoSignature}]

\* one webhook handler and one button callback, interleaved at their awaits
NextUI ==
  \/ \E s \in {"h1"} : Receive(s, UiRequests)
  \/ \E s \in {"h1"} : Endpoint(s)
  \/ \E s \in {"h1"} : NewTicketFetch(s)
  \/ \E s \in {"h1"} : NewTicketSend(s)
  \/ \E s \in {"h1"} : NewTicketAdd(s)
  \/ \E s \in {"h1"} : Lookup(s)
  \/ \E s \in {"h1"} : UserReplyFetch(s)
  \/ \E s \in {"h1"} : UserReplyFetchMessage(s)
  \/ \E s \in {"h1"} : UserReplyEdit(s)
  \/ \E s \in {"h1"} : UserReplyNotify(s)
  \/ \E s \in {"h1"} : RemoveFetchMessage(s)
  \/ \E s \in {"h1"} : RemoveDelete(s)
  \/ \E s \in {"h1"} : UpdateStatus(s)
  \/ \E u \in UiSlots : UiClick(u)
  \/ \E u \in UiSlots : UiSend(u)
  \/ \E u \in UiSlots : UiMarkReplied(u)
  \/ \E u \in UiSlots : UiClose(u)
  \/ \E u \in UiSlots : UiMarkClosed(u)
  \/ \E u \in UiSlots : UiRespond(u)
  \/ \E u \in UiSlots : UiDelete(u)

SpecUI == InitWith({""}) /\ [][NextUI]_vars

\* no webhook handler, resp. no button callback, is between two awaits
HandlersQuiet == \A s \in Slots : h[s].pc \in {"idle", "done"}
UiQuiet == \A u \in UiSlots : ui[u].pc \in {"idle", "done"}

\* the webhooks that create the tickets the actors work on
SeqRequests ==
  {rq \in UiRequests : rq.body.topic = "conversation.user.created"}

\* tickets are created by webhooks and worked on with the buttons, one
\* operation after the other: an operation starts only when the previous
\* one has ended
NextSeq ==
  \/ UiQuiet /\ \E s \in {"h1"} : Receive(s, SeqRequests)
  \/ \E s \in {"h1"} : Endpoint(s)
  \/ \E s \in {"h1"} : NewTicketFetch(s)
  \/ \E s \in {"h1"} : NewTicketSend(s)
  \/ \E s \in {"h1"} : NewTicketAdd(s)
  \/ HandlersQuiet /\ \E u \in UiSlots : UiClick(u)
  \/ \E u \in UiSlots : UiSend(u)
  \/ \E u \in UiSlots : UiMarkReplied(u)
  \/ \E u \in UiSlots : UiClose(u)
  \/ \E u \in UiSlots : UiMarkClosed(u)
  \/ \E u \in UiSlots : UiRespond(u)
  \/ \E u \in UiSlots : UiDelete(u)

SpecSeq == InitWith({""}) /\ [][NextSeq]_vars

\* two tickets: webhooks of the conversations c1 and c2 create and close
\* them, one request at a time, while the actor clicks buttons of either
RequestsOf(conversation_id, topics) ==
  [body : [json : {"object"}, topic : topics, id : {conversation_id}],
   signature : {NoSignature}]
TwoConvs == {"c1", "c2"}
TwoTopics == {"conversation.user.created", "conversation.admin.closed"}
TwoRequests == UNION {RequestsOf(c, TwoTopics) : c \in TwoConvs}

NextTwo ==
  \/ Receive("h1", TwoRequests)
  \/ Endpoint("h1")
  \/ NewTicketFetch("h1")
  \/ NewTicketSend("h1")
  \/ NewTicketAdd("h1")
  \/ Lookup("h1")
  \/ RemoveFetchMessage("h1")
  \/ RemoveDelete("h1")
  \/ UpdateStatus("h1")
  \/ \E u \in UiSlots : UiClick(u)
  \/ \E u \in UiSlots : UiSend(u)
  \/ \E u \in UiSlots : UiMarkReplied(u)
  \/ \E u \in UiSlots : UiClose(u)
  \/ \E u \in UiSlots : UiMarkClosed(u)
  \/ \E u \in UiSlots : UiRespond(u)
  \/ \E u \in UiSlots : UiDelete(u)

SpecTwo == InitWith({""}) /\ [][NextTwo]_vars

\* the conversations handed to get_conversation_thread
RawThreads == [source : Sources, parts : SeqsUpTo(RawParts, MaxParts)]

InitThread ==
  /\ InitHandlers({""})
  /\ conversation \in RawThreads
  /\ thread = NoThread
  /\ bulk = NoBulk
  /\ button = NoButton
  /\ sweep = NoSweep
  /\ listing = NoListing

\* thread = await get_conversation_thread(conversation_id)
GetConversationThread ==
  /\ thread = NoThread
  /\ thread' = ConversationThread(conversation)
  /\ UNCHANGED <<uiVars, sweep, listing,
                 conversation, bulk, button, secret, tickets, channel,
                 nextMsg, now, h>>

NextThread == GetConversationThread
SpecThread == InitThread /\ [][NextThread]_vars

\* the conversations whose thread is rendered: parts of four authors (two
\* of them resolve to the same display name), two timestamps and two texts
Authors ==
  {[NoAuthor EXCEPT !.name = "Ann", !.type = "user"],
   [NoAuthor EXCEPT !.email = "bob@x.io", !.type = "user"],
   [NoAuthor EXCEPT !.type = "admin"],
   [NoAuthor EXCEPT !.name = "Admin", !.type = "team"]}
RenderParts ==
  [part_type : {"comment"}, body : {<<Word("hi")>>, <<Word("yo")>>},
   attachments : {<<>>}, created_at : {TsInt(1), TsInt(2)}, author : Authors]
RenderSources ==
  {[part_type |-> "", body |-> b, attachments |-> <<>>,
    created_at |-> TsInt(1),
    author |-> [NoAuthor EXCEPT !.name = "Ann", !.type = "user"]] :
     b \in {<<>>, <<Word("hello")>>}}
RenderThreads ==
  [source : RenderSources, parts : SeqsUpTo(RenderParts, MaxParts)]

InitRender ==
  /\ InitHandlers({""})
  /\ conversation \in RenderThreads
  /\ thread = NoThread
  /\ bulk = NoBulk
  /\ button = NoButton
  /\ sweep = NoSweep
  /\ listing = NoListing

SpecRender == InitRender /\ [][NextThread]_vars

\* the raw parts the Content Extractor is tried on: every system type and
\* every placeholder type, bodies with and without text, markup and image
\* tags, attachments of every kind and files of every size class
PartTypes ==
  system_message_types \cup {"comment", "assignment", "close", "open", "note"}
ExtractBodies ==
  {<<>>, <<Space>>, <<Word("None")>>, <<Space, Word("None"), Space>>,
   <<Word("hi")>>, <<Tag, Word("hi"), Space, Tag>>, <<Tag>>, <<Img("u.png")>>,
   <<Img("")>>, <<Img("u.png"), Img("")>>,
   <<Tag, Word("hi"), Img("u.png"), Img("v.png")>>}
FileSizes == {0, 1, KiB - 1, KiB, 2 * KiB - 1, MiB - 1, MiB, 3 * MiB - 1}
Attachments ==
  {[File EXCEPT !.size = n] : n \in FileSizes}
  \cup {[type |-> "image", name |-> "i.png", url |-> u, size |-> 0] :
          u \in {"", "u.png"}}
  \cup {[type |-> "video", name |-> "", url |-> "", size |-> 0]}
ExtractParts ==
  [part_type : PartTypes, body : ExtractBodies,
   attachments : {<<>>} \cup {<<a>> : a \in Attachments}
                 \cup {<<File, a>> : a \in Attachments},
   created_at : {TsInt(1)}]

InitExtract ==
  /\ InitHandlers({""})
  /\ conversation \in [source : {NoSource},
                        parts : {<<p>> : p \in ExtractParts}]
  /\ thread = NoThread
  /\ bulk = NoBulk
  /\ button = NoButton
  /\ sweep = NoSweep
  /\ listing = NoListing

\* message_content = self._extract_message_content(part), and the thread
\* of the conversation that holds this part only
ExtractContent ==
  /\ thread = NoThread
  /\ thread' = [status |-> "extracted",
                content |-> _extract_message_content(conversation.parts[1]),
                thread_messages |-> thread_messages(conversation)]
  /\ UNCHANGED <<uiVars, sweep, listing,
                 conversation, bulk, button, secret, tickets, channel,
                 nextMsg, now, h>>

NextExtract == ExtractContent
SpecExtract == InitExtract /\ [][NextExtract]_vars

(* ------------------- process_conversations_in_batches ------------------- *)
MaxIds == 4
MaxBatchSize == 3

\* what a get_conversation_summary task ends with: the summary, None (the
\* conversation could not be fetched) or an exception
FetchOutcomes == {"summary", "None", "Exception"}

\* the call process_conversations_in_batches(conversation_ids, batch_size):
\* the ids are named by their position in the list; i is the loop variable;
\* tasks are the fetches in flight; outcome is what each fetch ended with and
\* results the list of the code (summaries by position); started counts the
\* fetches started per position, sleeps the delays slept, batches the
\* batches begun
BulkStarts ==
  {[pc |-> "loop", n |-> n, batch_size |-> b, i |-> 0, tasks |-> {},
    results |-> <<>>, outcome |-> [p \in 1..n |-> "pending"],
    started |-> [p \in 1..n |-> 0], sleeps |-> 0, batches |-> 0] :
     n \in 0..MaxIds, b \in 1..MaxBatchSize}

InitBatch ==
  /\ InitHandlers({""})
  /\ conversation = NoRaw
  /\ thread = NoThread
  /\ bulk \in BulkStarts
  /\ button = NoButton
  /\ sweep = NoSweep
  /\ listing = NoListing

\* mutant: the slice overlaps the next batch by one id
Batch_Overlap(b) == {p \in 1..b.n : b.i < p /\ p <= b.i + b.batch_size + 1}

\* batch = conversation_ids[i:i + batch_size], as positions
Batch(b) == {p \in 1..b.n : b.i < p /\ p <= b.i + b.batch_size}

\* for i in range(0, len(conversation_ids), batch_size): the tasks of the
\* batch are created and handed to asyncio.gather
BulkStartBatch ==
  /\ bulk.pc = "loop"
  /\ bulk.i < bulk.n
  /\ bulk' = [bulk EXCEPT
                !.pc = "gather", !.tasks = Batch(bulk),
                !.started = [p \in 1..bulk.n |->
                               IF p \in Batch(bulk) THEN @[p] + 1 ELSE @[p]],
                !.batches = @ + 1]
  /\ UNCHANGED <<uiVars, sweep, listing,
                 conversation, thread, button, secret, tickets,
                 channel, nextMsg, now, h>>

\* one get_conversation_summary task of the batch finishes
BulkFetchDone ==
  /\ bulk.pc = "gather"
  /\ \E p \in bulk.tasks, o \in FetchOutcomes :
       bulk' = [bulk EXCEPT !.tasks = @ \ {p}, !.outcome[p] = o]
  /\ UNCHANGED <<uiVars, sweep, listing,
                 conversation, thread, button, secret, tickets,
                 channel, nextMsg, now, h>>

\* the positions of S whose fetch gave a summary, in ascending order
RECURSIVE Summaries(_, _)
Summaries(b, S) ==
  IF S = {} THEN <<>>
  ELSE LET p == CHOOSE p \in S : \A q \in S : p <= q
       IN (IF b.outcome[p] = "summary" THEN <<p>> ELSE <<>>)
          \o Summaries(b, S \ {p})

\* gather returns when every task of the batch has finished: exceptions
\* and None are left out, the summaries are appended in the order of the
\* batch; then the delay, unless this was the last batch
BulkGathered ==
  /\ bulk.pc = "gather"
  /\ bulk.tasks = {}
  /\ bulk' = [bulk EXCEPT
                !.results = @ \o Summaries(bulk, Batch(bulk)),
                !.pc = IF bulk.i + bulk.batch_size < bulk.n
                         THEN "sleep" ELSE "loop",
                !.i = IF bulk.i + bulk.batch_size < bulk.n
                        THEN @ ELSE @ + bulk.batch_size]
  /\ UNCHANGED <<uiVars, sweep, listing,
                 conversation, thread, button, secret, tickets,
                 channel, nextMsg, now, h>>

\* await asyncio.sleep(Config.RATE_LIMIT_BATCH_DELAY) returns
BulkSlept ==
  /\ bulk.pc = "sleep"
  /\ bulk' = [bulk EXCEPT !.pc = "loop", !.i = @ + bulk.batch_size,
                          !.sleeps = @ + 1]
  /\ UNCHANGED <<uiVars, sweep, listing,
                 conversation, thread, button, secret, tickets,
                 channel, nextMsg, now, h>>

\* return results
BulkReturn ==
  /\ bulk.pc = "loop"
  /\ bulk.i >= bulk.n
  /\ bulk' = [bulk EXCEPT !.pc = "done"]
  /\ UNCHANGED <<uiVars, sweep, listing,
                 conversation, thread, button, secret, tickets,
                 channel, nextMsg, now, h>>

NextBatch ==
  \/ BulkStartBatch
  \/ BulkFetchDone
  \/ BulkGathered
  \/ BulkSlept
  \/ BulkReturn

\* the event loop runs every task that can run, a fetch ends with a
\* response or an exception of the transport, and a sleep ends
SpecBatch == InitBatch /\ [][NextBatch]_vars /\ WF_vars(NextBatch)

(* -------------------------- button identifiers -------------------------- *)
MaxIdParts == 2

\* quick reply keys a configuration can hold, as their parts between
\* underscores: "nofunds", "no_robux", "very_long_key_name" and ""
ButtonKeys ==
  {<<"nofunds">>, <<"no", "robux">>, <<"very", "long", "key", "name">>,
   <<"">>, <<"resolved">>}

\* ticket ids: strings of up to MaxIdParts parts between underscores, such
\* as "12345", "", "a_12345" and "12345_"
TicketIds == SeqsUpTo({"12345", "a", "b", ""}, MaxIdParts) \ {<<>>}

InitButton ==
  /\ InitHandlers({""})
  /\ conversation = NoRaw
  /\ thread = NoThread
  /\ bulk = NoBulk
  /\ button \in [pc : {"new"}, key : ButtonKeys, ticket_id : TicketIds,
                 custom_id : {<<>>}, action : {<<>>}]
  /\ sweep = NoSweep
  /\ listing = NoListing

\* TicketView.__init__ gives the button of the key its custom_id
ButtonBuild ==
  /\ button.pc = "new"
  /\ button' = [button EXCEPT
                  !.pc = "built",
                  !.custom_id = custom_id(button.key, button.ticket_id)]
  /\ UNCHANGED <<uiVars, sweep, listing,
                 conversation, thread, bulk, secret, tickets, channel,
                 nextMsg, now, h>>

\* quick_reply_callback parses the key out of interaction.data["custom_id"]
ButtonParse ==
  /\ button.pc = "built"
  /\ button' = [button EXCEPT !.pc = "parsed",
                              !.action = ParseAction(button.custom_id)]
  /\ UNCHANGED <<uiVars, sweep, listing,
                 conversation, thread, bulk, secret, tickets, channel,
                 nextMsg, now, h>>

NextButton == ButtonBuild \/ ButtonParse
SpecButton == InitButton /\ [][NextButton]_vars

(* -------------------------- cleanup_old_tickets ------------------------- *)
\* the days arguments tried besides the one cleanup_command passes
MaxDays == 2
\* cleanup_command: cleanup_old_tickets(days=30)
RetentionDays == 30
DaysArgs == 0..MaxDays \cup {RetentionDays}

\* a datetime of the year the bot runs in: month, day and the second of the
\* day (0 is midnight)
DateTime(month, day, second) ==
  [year |-> 2025, month |-> month, day |-> day, second |-> second]

\* the number of days of a month (of a year that is not a leap year)
DaysInMonth(month) ==
  IF month = 2 THEN 28
  ELSE IF month \in {4, 6, 9, 11} THEN 30
  ELSE 31

\* datetime.replace(day=day): ValueError unless the day is one of the month
ValueError == [raised |-> "ValueError"]
replace_day(datetime, day) ==
  IF day \in 1..DaysInMonth(datetime.month)
    THEN [datetime EXCEPT !.day = day]
    ELSE ValueError

\* datetime.isoformat(): "YYYY-MM-DDTHH:MM:SS", as its fields from left to
\* right; two such strings compare as these sequences do
isoformat(datetime) ==
  <<datetime.year, datetime.month, datetime.day, datetime.second>>
RECURSIVE TextLess(_, _)
TextLess(a, b) ==
  IF a = <<>> \/ b = <<>> THEN a = <<>> /\ b # <<>>
  ELSE IF a[1] # b[1] THEN a[1] < b[1]
  ELSE TextLess(Tail(a), Tail(b))

\* DELETE FROM tickets WHERE last_updated < ? (cutoff_date.isoformat())
cleanup_old_tickets(t, cutoff_date) ==
  LET kept == {k \in DOMAIN t :
                 ~TextLess(isoformat(t[k].last_updated), isoformat(cutoff_date))}
  IN [k \in kept |-> t[k]]

\* the dates the sweep runs on, and the last_updated values of the rows
Todays ==
  {DateTime(1, 1, 1), DateTime(1, 31, 1), DateTime(3, 1, 0),
   DateTime(3, 31, 1), DateTime(12, 31, 1)}
Stamps ==
  {DateTime(1, 1, 0), DateTime(1, 1, 1), DateTime(2, 28, 1),
   DateTime(3, 1, 0), DateTime(3, 30, 1), DateTime(12, 1, 0)}
SweepIds == {"c1", "c2"}
SweepRow(ticket_id, last_updated) ==
  [id |-> ticket_id, discord_message_id |-> 1, status |-> "closed",
   last_updated |-> last_updated, intercom_conversation_id |-> ticket_id]
SweepTables ==
  UNION {{[k \in ids |-> SweepRow(k, f[k])] : f \in [ids -> Stamps]} :
           ids \in SUBSET SweepIds}

InitCleanup ==
  /\ secret = ""
  /\ tickets \in SweepTables
  /\ channel = [m \in {} |-> [conv |-> "", title |-> ""]]
  /\ nextMsg = 1
  /\ now = 0
  /\ h = [s \in Slots |-> Idle]
  /\ ui = [u \in UiSlots |-> UiIdle]
  /\ conversation = NoRaw
  /\ thread = NoThread
  /\ bulk = NoBulk
  /\ button = NoButton
  /\ listing = NoListing
  /\ sweep \in [pc : {"start"}, now : Todays, days : DaysArgs,
                cutoff_date : {ValueError}]

\* cutoff_date = datetime.now().replace(hour=0, minute=0, second=0,
\* microsecond=0), then cutoff_date.replace(day=cutoff_date.day - days)
CleanupCutoff ==
  /\ sweep.pc = "start"
  /\ LET midnight == [sweep.now EXCEPT !.second = 0]
         cutoff_date == replace_day(midnight, midnight.day - sweep.days)
     IN sweep' = [sweep EXCEPT
                    !.pc = IF cutoff_date = ValueError
                             THEN "raised" ELSE "delete",
                    !.cutoff_date = cutoff_date]
  /\ UNCHANGED <<uiVars, conversation, thread, bulk, button, listing, secret,
                 tickets, channel, nextMsg, now, h>>

\* await db.execute(DELETE ...); await db.commit()
CleanupDelete ==
  /\ sweep.pc = "delete"
  /\ tickets' = cleanup_old_tickets(tickets, sweep.cutoff_date)
  /\ sweep' = [sweep EXCEPT !.pc = "done"]
  /\ UNCHANGED <<uiVars, conversation, thread, bulk, button, listing, secret,
                 channel, nextMsg, now, h>>

NextCleanup == CleanupCutoff \/ CleanupDelete
SpecCleanup == InitCleanup /\ [][NextCleanup]_vars

(* ------------------------- get_open_conversations ----------------------- *)
\* number of pages the remote service holds
MaxPages == 3

\* statistics.time_to_admin_reply: absent or null, or a number of seconds
NoTime == [recorded |-> FALSE, seconds |-> 0]
Seconds(n) == [recorded |-> TRUE, seconds |-> n]

\* a conversation of a page: its open and starred flags, its statistics
Listed(id, open, time_to_admin_reply, starred) ==
  [id |-> id, open |-> open, time_to_admin_reply |-> time_to_admin_reply,
   starred |-> starred]

\* not stats.get("time_to_admin_reply"): None and 0 are falsy
NoAdminReply(conv) ==
  ~conv.time_to_admin_reply.recorded \/ conv.time_to_admin_reply.seconds = 0

\* the two filters: conv.get("open"), then no time_to_admin_reply and not
\* conv.get("starred", False)
fresh_conversations(all_conversations) ==
  SelectSeq(all_conversations,
            LAMBDA conv : conv.open /\ NoAdminReply(conv) /\ ~conv.starred)

\* data["pages"]["next"]: absent or null, a string (the next page's URL), or
\* an object
Cursors == {"None", "str", "dict"}

\* a response of the remote service: its status, and for a 200 the
\* conversations and the cursor of its JSON
FailedPage == [status |-> 500, conversations |-> <<>>, next |-> "None"]
PageLists ==
  {<<>>,
   <<Listed("a", TRUE, NoTime, FALSE)>>,
   <<Listed("b", FALSE, NoTime, FALSE), Listed("c", TRUE, NoTime, FALSE)>>,
   <<Listed("d", TRUE, Seconds(5), FALSE), Listed("e", TRUE, NoTime, TRUE),
     Listed("f", TRUE, Seconds(0), FALSE)>>}
Pages ==
  {FailedPage} \cup [status : {200}, conversations : PageLists, next : Cursors]

\* the answer to the request of page i: a URL that leads past the last page
\* is answered with an error
Response(pages, i) == IF i <= Len(pages) THEN pages[i] ELSE FailedPage

InitListing ==
  /\ InitHandlers({""})
  /\ conversation = NoRaw
  /\ thread = NoThread
  /\ bulk = NoBulk
  /\ button = NoButton
  /\ sweep = NoSweep
  /\ listing \in [pc : {"start"}, pages : SeqsUpTo(Pages, MaxPages) \ {<<>>},
                  i : {1}, next : {"None"}, conversations : {<<>>}]

\* async with session.get(url) as response: a status other than 200 skips
\* the whole if block and reaches 'return conversations' with the name
\* unbound (UnboundLocalError)
ListFirstPage ==
  /\ listing.pc = "start"
  /\ LET response == Response(listing.pages, 1)
     IN listing' =
          IF response.status # 200
            THEN [listing EXCEPT !.pc = "raised"]
            ELSE [listing EXCEPT
                    !.pc = "paging",
                    !.next = response.next,
                    !.conversations =
                        fresh_conversations(response.conversations)]
  /\ UNCHANGED <<uiVars, conversation, thread, bulk, button, sweep, secret,
                 tickets, channel, nextMsg, now, h>>

\* one turn of the while loop with a string cursor: the next page is
\* requested; a 200 adds its fresh conversations, any other status breaks
ListNextPage ==
  /\ listing.pc = "paging" /\ listing.next = "str"
  /\ LET response == Response(listing.pages, listing.i + 1)
     IN listing' =
          IF response.status # 200
            THEN [listing EXCEPT !.pc = "returned"]
            ELSE [listing EXCEPT
                    !.i = @ + 1,
                    !.next = response.next,
                    !.conversations =
                        @ \o fresh_conversations(response.conversations)]
  /\ UNCHANGED <<uiVars, conversation, thread, bulk, button, sweep, secret,
                 tickets, channel, nextMsg, now, h>>

\* the loop ends: no cursor, or a cursor that is not a string (break)
ListReturn ==
  /\ listing.pc = "paging" /\ listing.next # "str"
  /\ listing' = [listing EXCEPT !.pc = "returned"]
  /\ UNCHANGED <<uiVars, conversation, thread, bulk, button, sweep, secret,
                 tickets, channel, nextMsg, now, h>>

NextListing == ListFirstPage \/ ListNextPage \/ ListReturn
SpecListing == InitListing /\ [][NextListing]_vars

(* ================================ claims =============================== *)
\* the ticket messages on the channel that render conversation c
LiveFor(c) == {m \in DOMAIN channel : channel[m].conv = c}

\* topics whose handler starts with the lookup of the local ticket
LocalTopics == KnownTopics \ {"conversation.user.created"}

Found(s) == h[s].ticket_data # NoTicketData
Fetched(s) == h[s].conversation_data # NoConversation
Success == [status |-> 200, key |-> "success"]
Info == [status |-> 200, key |-> "info"]

\* C1: when the handler of conversation.user.created ends for a conversation
\* that is fresh and has no Ticket row, the message it posted is on the
\* Display Surface and the Ticket Store holds the row of that conversation:
\* ticketId = conversation id, status open, displayMessageId = the message.
\* (Stated for the runs in which the remote fetch and the post succeed.)
C1_NewTicketPostedAndStored ==
  [][\A s \in Slots :
       (/\ h[s].topic = "conversation.user.created"
        /\ h[s].pc \in {"nt_send", "nt_add"} /\ h'[s].pc = "done"
        /\ h[s].fresh /\ ~HasTicketFor(tickets, h[s].conv)
        /\ h'[s].message # 0)
       => /\ h'[s].message \in DOMAIN channel'
          /\ channel'[h'[s].message].conv = h[s].conv
          /\ HasTicketFor(tickets', h[s].conv)
          /\ h[s].conv \in DOMAIN tickets'
          /\ tickets'[h[s].conv].status = "open"
          /\ tickets'[h[s].conv].discord_message_id = h'[s].message]_vars

\* C2: whatever webhooks are delivered and re-delivered, a conversation never
\* has more than one live ticket message on the Display Surface, and never
\* more than one Ticket row.
C2_AtMostOneLiveMessage ==
  \A c \in Convs :
    /\ Cardinality(LiveFor(c)) <= 1
    /\ Cardinality({k \in DOMAIN tickets :
                      tickets[k].intercom_conversation_id = c}) <= 1

\* C3: the handler of conversation.user.created for a conversation that is
\* not fresh (an admin replied, or it is starred) posts no message and
\* creates or modifies no Ticket row.
C3_NotFreshIsNoOp ==
  [][\A s \in Slots :
       (/\ h[s].topic = "conversation.user.created"
        /\ Fetched(s) /\ ~h[s].fresh
        /\ h'[s] # h[s])
       => channel' = channel /\ tickets' = tickets]_vars

\* C4: closed is terminal: a row whose status is closed keeps that status in
\* every later step, except that the creation upsert of a new
\* conversation.user.created may write it back to open.
C4_ClosedIsTerminal ==
  [][\A k \in DOMAIN tickets :
       tickets[k].status = "closed"
       => /\ k \in DOMAIN tickets'
          /\ \/ tickets'[k].status = "closed"
             \/ /\ tickets'[k].status = "open"
                /\ \E s \in Slots : h[s].pc = "nt_add" /\ h'[s].pc = "done"]_vars

RemovalTopics == {"conversation.admin.replied", "conversation.admin.closed"}

\* the pcs at which a handler calls the Display Surface
DisplayPcs ==
  {"nt_send", "ur_fetchmsg", "ur_edit", "ur_notify", "rm_fetchmsg",
   "rm_delete"}

\* the row of the ticket the handler in slot s looked up
RowOf(s) == tickets[h[s].ticket_data.id]

\* C5: a conversation.admin.closed (or conversation.admin.replied) webhook
\* delivered again, i.e. handled when the row already has the status the
\* topic writes, is answered with success and leaves the row as the first
\* delivery left it: same id, status, displayMessageId and conversationId
\* (lastUpdated may differ).
C5_RedeliveryIdempotent ==
  \A s \in Slots :
    (/\ h[s].pc = "done" /\ h[s].topic \in RemovalTopics /\ Found(s)
     /\ h[s].ticket_data.status = StatusFor(h[s].topic))
    => /\ h[s].resp = Success
       /\ DOMAIN tickets = {h[s].ticket_data.id}
       /\ RowOf(s).id = h[s].ticket_data.id
       /\ RowOf(s).status = h[s].ticket_data.status
       /\ RowOf(s).discord_message_id = h[s].ticket_data.discord_message_id
       /\ RowOf(s).intercom_conversation_id =
            h[s].ticket_data.intercom_conversation_id

\* a second conversation.admin.closed has been answered with success after
\* the message was gone, and only lastUpdated moved
C5_Witness ==
  \E s \in Slots :
    /\ h[s].pc = "done" /\ h[s].topic = "conversation.admin.closed"
    /\ Found(s) /\ h[s].ticket_data.status = "closed"
    /\ h[s].resp = Success
    /\ h[s].ticket_data.discord_message_id \notin DOMAIN channel
    /\ RowOf(s).status = "closed"
    /\ RowOf(s).last_updated # h[s].ticket_data.last_updated

\* C6: a handler of conversation.user.replied / admin.replied / admin.closed /
\* admin.assigned whose conversation has no Ticket row ends at the lookup
\* with an info result (200, not an error) and changes neither the Ticket
\* Store nor the Display Surface.
C6_UnknownTicketSoftNoOp ==
  [][\A s \in Slots :
       (/\ h[s].topic \in LocalTopics /\ h[s].pc # "done" /\ h'[s] # h[s]
        /\ ~HasTicketFor(tickets, h[s].conv))
       => /\ tickets' = tickets /\ channel' = channel /\ nextMsg' = nextMsg
          /\ h'[s].pc = "done" /\ h'[s].resp = Info]_vars

C6_Witness ==
  \E s \in Slots :
    /\ h[s].pc = "done" /\ h[s].topic = "conversation.admin.closed"
    /\ ~Found(s) /\ h[s].resp = Info
    /\ ~HasTicketFor(tickets, h[s].conv)

\* C7: when the handler of conversation.admin.replied (admin.closed) has
\* ended for a ticket it found, the row has status admin_replied (closed) and
\* the answer is success, whether or not the message could be removed; and
\* unless the Display Surface failed, the ticket's message is gone.
C7_RemoveAndMark ==
  \A s \in Slots :
    (h[s].pc = "done" /\ h[s].topic \in RemovalTopics /\ Found(s))
    => /\ h[s].resp = Success
       /\ h[s].ticket_data.id \in DOMAIN tickets
       /\ RowOf(s).status =
            (IF h[s].topic = "conversation.admin.replied"
               THEN "admin_replied" ELSE "closed")
       /\ (~h[s].surface_failed
             => h[s].ticket_data.discord_message_id \notin DOMAIN channel)

\* an open ticket's message was removed by conversation.admin.replied
C7_Witness ==
  \E s \in Slots :
    /\ h[s].pc = "done" /\ h[s].topic = "conversation.admin.replied"
    /\ Found(s) /\ h[s].ticket_data.status = "open"
    /\ ~h[s].surface_failed
    /\ RowOf(s).status = "admin_replied"
    /\ h[s].ticket_data.discord_message_id \notin DOMAIN channel

\* C8: no step of the handler of conversation.user.replied posts or removes
\* a ticket message, adds a row or changes a row's displayMessageId; its edit
\* gives the ticket's own message the updated embed; and when it ends after
\* the conversation was fetched, the answer is success and the row has
\* status user_replied.
C8_UserReplyRefreshInPlace ==
  [][\A s \in Slots :
       (h[s].topic = "conversation.user.replied" /\ h[s].pc # "done"
        /\ h'[s] # h[s])
       => /\ DOMAIN channel' = DOMAIN channel /\ nextMsg' = nextMsg
          /\ \A m \in DOMAIN channel : channel'[m].conv = channel[m].conv
          /\ DOMAIN tickets' = DOMAIN tickets
          /\ \A k \in DOMAIN tickets :
               tickets'[k].discord_message_id = tickets[k].discord_message_id
          /\ (/\ h[s].pc = "ur_edit"
              /\ h'[s].surface_failed = h[s].surface_failed
              /\ h[s].ticket_data.discord_message_id \in DOMAIN channel)
             => channel'[h[s].ticket_data.discord_message_id].title =
                  "Updated Ticket"
          /\ (h'[s].pc = "done" /\ h'[s].conversation_data # NoConversation)
             => /\ h'[s].resp = Success
                /\ tickets'[h[s].ticket_data.id].status = "user_replied"]_vars

C8_Witness ==
  \E s \in Slots :
    /\ h[s].pc = "done" /\ h[s].topic = "conversation.user.replied"
    /\ Found(s) /\ Fetched(s) /\ ~h[s].surface_failed
    /\ h[s].resp = Success
    /\ RowOf(s).status = "user_replied"
    /\ RowOf(s).discord_message_id = h[s].ticket_data.discord_message_id
    /\ h[s].ticket_data.discord_message_id \in DOMAIN channel
    /\ channel[h[s].ticket_data.discord_message_id].title = "Updated Ticket"
    /\ Cardinality(LiveFor(h[s].conv)) = 1

\* C9: the handler of conversation.admin.assigned never is at a call of the
\* Display Surface, and when it has ended for a ticket it found, the answer
\* is success, the row has status assigned and its displayMessageId is the
\* one that was looked up.
C9_AssignedNoDisplayCall ==
  \A s \in Slots :
    h[s].topic = "conversation.admin.assigned"
    => /\ h[s].pc \notin DisplayPcs
       /\ ~h[s].surface_failed
       /\ (h[s].pc = "done" /\ Found(s))
          => /\ h[s].resp = Success
             /\ RowOf(s).status = "assigned"
             /\ RowOf(s).discord_message_id =
                  h[s].ticket_data.discord_message_id

C9_Witness ==
  \E s \in Slots :
    /\ h[s].pc = "done" /\ h[s].topic = "conversation.admin.assigned"
    /\ Found(s) /\ h[s].ticket_data.status = "open"
    /\ RowOf(s).status = "assigned"
    /\ h[s].ticket_data.discord_message_id \in DOMAIN channel
    /\ channel[h[s].ticket_data.discord_message_id].title = "New Ticket"

\* the signature header of request rq equals the digest of its body
SignatureMatches(rq) ==
  /\ rq.signature.ascii
  /\ rq.signature.hex = HmacSha256Hex(secret, rq.body)

\* C10: with a secret configured, a request whose signature header is present
\* and is not the HMAC-SHA256 hex digest of the raw body is answered 401,
\* whatever the body is (JSON or not), and no handler runs for it.
C10_BadSignatureIs401 ==
  \A s \in Slots :
    (/\ secret # "" /\ h[s].pc # "idle"
     /\ h[s].request.signature.present /\ ~SignatureMatches(h[s].request))
    => /\ h[s].pc \in {"received", "done"}
       /\ h[s].pc = "done" => h[s].resp.status = 401 /\ h[s].topic = ""

\* the request is refused by the signature check as the spec describes it:
\* a secret is configured and the header is present and is not the digest
SignatureMismatch(rq) ==
  secret # "" /\ rq.signature.present /\ ~SignatureMatches(rq)

ResultKeys == {"success", "info", "error"}

\* C11: the step that answers a request gives 401 when the signature does
\* not match, otherwise 400 when the body is not JSON, otherwise, for a JSON
\* object, 200 with one of the keys success, info, error; an unknown topic
\* is answered with info by a step that changes neither the Ticket Store nor
\* the Display Surface; no other status than 200, 400, 401, 500 is sent.
C11_OneResponsePerRequest ==
  [][\A s \in Slots :
       (h[s].pc \notin {"idle", "done"} /\ h'[s].pc = "done")
       => LET rq == h[s].request
              r == h'[s].resp
          IN /\ r.status \in {200, 400, 401, 500}
             /\ SignatureMismatch(rq) => r.status = 401
             /\ (~SignatureMismatch(rq) /\ rq.body.json = "notjson")
                => r.status = 400
             /\ (~SignatureMismatch(rq) /\ rq.body.json = "object")
                => r.status = 200 /\ r.key \in ResultKeys
             /\ (/\ ~SignatureMismatch(rq) /\ rq.body.json = "object"
                 /\ rq.body.topic \notin KnownTopics \cup {""}
                 /\ rq.body.id # "")
                => r = Info /\ tickets' = tickets /\ channel' = channel]_vars

\* malformed webhook input: not JSON, JSON that is not an object, or an
\* object without topic or without data.id
Malformed(body) ==
  body.json # "object" \/ body.topic = "" \/ body.id = ""

\* C12: a request with malformed input never is inside a topic handler, and
\* it is answered with 400 or 401.
C12_MalformedRejectedAtBoundary ==
  \A s \in Slots :
    (h[s].pc # "idle" /\ Malformed(h[s].request.body))
    => /\ h[s].pc \in {"received", "done"}
       /\ h[s].topic = ""
       /\ h[s].pc = "done" => h[s].resp.status \in {400, 401}

\* the step that ends the button callback in slot u
UiEnds(u) == ui[u].pc \notin {"idle", "done"} /\ ui'[u].pc = "done"

C14_SendFailureChangesNothing ==
  [][\A u \in UiSlots :
       (/\ ui'[u] # ui[u] /\ ui'[u].kind \in {"quick", "custom"}
        /\ ui'[u].success = "False")
       => /\ tickets' = tickets /\ channel' = channel /\ nextMsg' = nextMsg
          /\ ui'[u].effects = <<"reply">>
          /\ ui'[u].close_success = ""
          /\ ui'[u].pc \in {"respond", "done"}
          /\ (ui'[u].pc = "done" /\ ~ui'[u].surface_failed)
             => ui'[u].told = "failed"]_vars

\* a custom reply could not be sent: the actor was told, the ticket is still
\* open and its message is still there
C14_Witness ==
  \E u \in UiSlots :
    /\ ui[u].pc = "done" /\ ui[u].kind = "custom"
    /\ ui[u].success = "False" /\ ui[u].told = "failed"
    /\ ui[u].effects = <<"reply">>
    /\ ui[u].ticket_id \in DOMAIN tickets
    /\ tickets[ui[u].ticket_id].status = "open"
    /\ ui[u].message \in DOMAIN channel

\* the status updates a step makes to the row k: by a webhook handler at
\* its update_ticket_status, by a button callback at one of its two
WebhookWrites(k) ==
  {StatusFor(h[s].topic) :
     s \in {s \in Slots : /\ h[s].pc = "update" /\ h'[s].pc = "done"
                          /\ h[s].ticket_data.id = k}}
ButtonWrites(k) ==
  {IF ui[u].pc = "mark_replied" THEN "replied" ELSE "closed" :
     u \in {u \in UiSlots : /\ ui[u].pc \in {"mark_replied", "mark_closed"}
                            /\ ui'[u].pc # ui[u].pc
                            /\ ui[u].ticket_id = k}}
CreationUpsert == \E s \in Slots : h[s].pc = "nt_add" /\ h'[s].pc = "done"

\* C15: while button callbacks and webhook handlers of one ticket interleave,
\* every step other than a creation upsert keeps the rows of the Ticket
\* Store and their ticket id, displayMessageId and conversation id; a row's
\* status after a step that updates it is the status that step writes,
\* whatever it was before, and no other step changes a status.
C15_LastWriteWins ==
  [][~CreationUpsert
     => /\ DOMAIN tickets' = DOMAIN tickets
        /\ \A k \in DOMAIN tickets :
             /\ tickets'[k].id = tickets[k].id
             /\ tickets'[k].discord_message_id = tickets[k].discord_message_id
             /\ tickets'[k].intercom_conversation_id =
                  tickets[k].intercom_conversation_id
             /\ \A st \in WebhookWrites(k) \cup ButtonWrites(k) :
                  tickets'[k].status = st
             /\ WebhookWrites(k) \cup ButtonWrites(k) = {}
                => tickets'[k].status = tickets[k].status]_vars

\* a conversation.admin.closed handler and a quick reply on the same ticket
\* overlapped: the button was clicked before the handler removed the message,
\* and the callback wrote replied after the handler wrote closed
C15_Witness ==
  \E s \in Slots, u \in UiSlots :
    /\ h[s].pc = "done" /\ h[s].topic = "conversation.admin.closed"
    /\ Found(s) /\ h[s].resp = Success /\ ~h[s].surface_failed
    /\ h[s].ticket_data.status = "open"
    /\ ui[u].pc = "done" /\ ui[u].kind = "quick"
    /\ ui[u].effects = <<"reply", "replied">>
    /\ ui[u].ticket_id = h[s].ticket_data.id
    /\ ui[u].message = h[s].ticket_data.discord_message_id
    /\ ui[u].message \notin DOMAIN channel
    /\ tickets[ui[u].ticket_id].status = "replied"

\* the conversations of the operations that take the step
StepConvs ==
  {h'[s].request.body.id : s \in {s \in Slots : h'[s] # h[s]}}
  \cup {ui'[u].conversation_id : u \in {u \in UiSlots : ui'[u] # ui[u]}}

StatusEnum ==
  {"open", "replied", "admin_replied", "user_replied", "assigned", "closed"}

\* C17: after every step each row's status is one of open, replied,
\* admin_replied, user_replied, assigned, closed; a row that the step added
\* has status open and was added by the creation upsert; no status update of
\* a handler or of a button callback writes open, and a row that a step
\* changed to open was changed by the creation upsert.
C17_StatusEnumAndOpenOnlyAtCreation ==
  [][/\ \A k \in DOMAIN tickets' : tickets'[k].status \in StatusEnum
     /\ \A k \in DOMAIN tickets' \ DOMAIN tickets :
          tickets'[k].status = "open" /\ CreationUpsert
     /\ \A k \in DOMAIN tickets :
          /\ "open" \notin WebhookWrites(k) \cup ButtonWrites(k)
          /\ (/\ k \in DOMAIN tickets' /\ tickets'[k] # tickets[k]
              /\ tickets'[k].status = "open")
             => CreationUpsert]_vars

\* a ticket that was created open and set to replied by a button has been
\* set to assigned by a webhook
C17_Witness ==
  \E s \in Slots :
    /\ h[s].pc = "done" /\ h[s].topic = "conversation.admin.assigned"
    /\ Found(s) /\ h[s].ticket_data.status = "replied"
    /\ RowOf(s).status = "assigned"

Parsable(timestamp) == timestamp.type \in {"int", "digits", "iso"}
Unparsable(timestamp) == timestamp.type \in {"text", "null"}

\* C19: the reconstructed thread is in ascending sortKey order, entries with
\* equal keys in fetch order; the sortKey is the integer itself, the value of
\* a digit string, and 0 for an unparsable or absent timestamp; and every
\* entry with an unparsable or absent timestamp comes before every entry
\* with a parsable one.
C19_SortedUnparsableFirst ==
  thread.status = "ok"
  => LET m == thread.thread_messages
     IN /\ \A i, j \in 1..Len(m) :
             i < j => /\ m[i].timestamp_sort <= m[j].timestamp_sort
                      /\ m[i].timestamp_sort = m[j].timestamp_sort
                         => m[i].fetch_index < m[j].fetch_index
        /\ \A i \in 1..Len(m) :
             /\ m[i].timestamp.type = "int"
                => m[i].timestamp_sort = m[i].timestamp.n
             /\ m[i].timestamp.type = "digits"
                => m[i].timestamp_sort = IntOf(m[i].timestamp.digits)
             /\ Unparsable(m[i].timestamp) => m[i].timestamp_sort = 0
        /\ \A i, j \in 1..Len(m) :
             (Unparsable(m[i].timestamp) /\ Parsable(m[j].timestamp))
             => i < j

\* the fetch indexes of the entries of the thread
RetainedIndexes ==
  {thread.thread_messages[i].fetch_index :
     i \in 1..Len(thread.thread_messages)}

\* C20: a raw part has an entry in the reconstructed thread if and only if
\* the Content Extractor returns non-null content for it, no part has two
\* entries, and message_count is the number of entries.
C20_RetainedIffContent ==
  thread.status = "ok"
  => /\ \A i \in 1..Len(conversation.parts) :
          i \in RetainedIndexes
          <=> ~_extract_message_content(conversation.parts[i]).null
     /\ thread.message_count = Len(thread.thread_messages)
     /\ Cardinality(RetainedIndexes) = Len(thread.thread_messages)

\* the segments of a rendered body between the block separators
RECURSIVE Split(_)
Split(body) ==
  IF \A i \in 1..Len(body) : body[i] # Separator THEN <<body>>
  ELSE LET i == CHOOSE i \in 1..Len(body) :
                  /\ body[i] = Separator
                  /\ \A j \in 1..(i - 1) : body[j] # Separator
       IN <<SubSeq(body, 1, i - 1)>> \o Split(SubSeq(body, i + 1, Len(body)))

\* the maximal runs of adjacent messages of one author, as the pairs of
\* the first and last index of each run
Runs(m) ==
  {<<a, b>> \in (1..Len(m)) \X (1..Len(m)) :
     /\ a <= b
     /\ \A i \in a..b : m[i].author = m[a].author
     /\ a = 1 \/ m[a - 1].author # m[a].author
     /\ b = Len(m) \/ m[b + 1].author # m[b].author}

\* the text of the run a..b: the heading and the message for a run of one,
\* the heading and one numbered line per message for a longer run
RunText(m, a, b) ==
  IF a = b THEN <<Heading(m[a].author)>> \o m[a].message
  ELSE <<Heading(m[a].author)>>
       \o Join([i \in 1..(b - a + 1) |->
                  <<Newline, Number(i)>> \o m[a + i - 1].message], <<>>)

\* C21: splitting the rendered body on the block separator gives one segment
\* per maximal run of adjacent messages with the same author display name,
\* in the order of the sorted list; the segment of a run of one message is
\* unnumbered, the segment of a run of k > 1 messages numbers them 1..k.
C21_BodyIsGroupingOfMessages ==
  (thread.status = "ok" /\ thread.thread_messages # <<>>)
  => LET m == thread.thread_messages
         segments == Split(thread.body)
     IN /\ Len(segments) = Cardinality(Runs(m))
        /\ \A r \in Runs(m) :
             LET n == Cardinality({q \in Runs(m) : q[1] <= r[1]})
             IN segments[n] = RunText(m, r[1], r[2])

\* a thread with a run of one message and a run of several messages
C21_Witness ==
  /\ thread.status = "ok"
  /\ \E r, q \in Runs(thread.thread_messages) : r[1] = r[2] /\ q[1] < q[2]
  /\ \E i, j \in 1..Len(thread.thread_messages) :
       /\ thread.thread_messages[i].author = thread.thread_messages[j].author
       /\ thread.thread_messages[i].author_type
            # thread.thread_messages[j].author_type

\* the part handed to the Content Extractor and what it returned
ThePart == conversation.parts[1]
Extracted == thread.status = "extracted"

\* the system-event part types of the specification
SystemEventTypes ==
  {"language_detection_details"}
  \cup {"conversation_attribute_updated_by_" \o who :
          who \in {"admin", "user", "bot", "team", "workspace", "system"}}

\* C22: a part whose type is a system event is extracted to null whatever
\* its body and attachments are, and has no entry in the thread.
C22_SystemPartsNeverAppear ==
  (Extracted /\ ThePart.part_type \in SystemEventTypes)
  => /\ thread.content = Null
     /\ thread.thread_messages = <<>>

\* a system event with a text body and attachments has been extracted
C22_Witness ==
  /\ Extracted
  /\ ThePart.part_type = "language_detection_details"
  /\ ThePart.body = <<Word("hi")>>
  /\ ThePart.attachments # <<>>

\* the kinds of the tokens of a content
Kinds(content) == {content.text[i].k : i \in 1..Len(content.text)}

\* the content comes from the body: it is a string without attachment
\* descriptions, the one the part would give without its attachments
BodyDetermines ==
  /\ ~thread.content.null
  /\ Kinds(thread.content) \subseteq {"word", "space", "link", "bar"}
  /\ thread.content
       = _extract_message_content([ThePart EXCEPT !.attachments = <<>>])

\* the content is one description per attachment
AttachmentsDetermine ==
  /\ ~thread.content.null
  /\ Kinds(thread.content) \subseteq {"file", "image", "bar"}
  /\ Len(SelectSeq(thread.content.text, LAMBDA t : t.k # "bar"))
       = Len(ThePart.attachments)

\* the placeholder texts of the specification
Placeholders ==
  "comment" :> "[Comment]" @@ "assignment" :> "[Conversation assigned]"
  @@ "close" :> "[Conversation closed]" @@ "open" :> "[Conversation opened]"

PartTypeDetermines ==
  IF ThePart.part_type \in DOMAIN Placeholders
    THEN thread.content = Content(<<Word(Placeholders[ThePart.part_type])>>)
    ELSE thread.content = Null

\* the priority of body, attachments and part type for a non-system part,
\* for a given reading of "the body is present"
Priority(present) ==
  (Extracted /\ ThePart.part_type \notin SystemEventTypes)
  => IF present THEN BodyDetermines
     ELSE IF ThePart.attachments # <<>> THEN AttachmentsDetermine
     ELSE PartTypeDetermines

\* the body without its white space
NonSpace(body) == SelectSeq(body, LAMBDA t : t.k # "space")

\* C23 as stated: for a non-system part a body that is non-empty and not
\* the literal None determines the content and the attachments are ignored;
\* otherwise a non-empty attachment list determines it; otherwise the part
\* type gives the placeholder, and any other part type gives null.
C23_StrictPriority ==
  Priority(ThePart.body # <<>> /\ ThePart.body # <<Word("None")>>)

\* C23 as amended: the same priority, where the body counts when it is
\* non-empty after trimming its white space and the trimmed body is not
\* None; a body of white space only, or None between white space, is
\* skipped like an empty one.
C23_StrictPriorityTrimmed ==
  Priority(NonSpace(ThePart.body) # <<>>
           /\ ~(NonSpace(ThePart.body) = <<Word("None")>>
                /\ \A i \in 1..Len(ThePart.body) :
                     ThePart.body[i].k \in {"space", "word"}))

\* a part whose body is white space only and that has attachments has been
\* extracted to the descriptions of its attachments
C23_Witness ==
  /\ Extracted
  /\ ThePart.part_type = "comment"
  /\ ThePart.body = <<Space>>
  /\ ThePart.attachments # <<>>
  /\ AttachmentsDetermine

\* the tokens of a content between the bars
Tokens(content) == SelectSeq(content.text, LAMBDA t : t.k # "bar")

\* the tokens of a content are joined by single bars
BarJoined(content) ==
  /\ Len(content.text) = 2 * Len(Tokens(content)) - 1
  /\ \A i \in 1..Len(content.text) :
       (content.text[i].k = "bar") <=> (i % 2 = 0)

\* C24: for a non-system part whose body holds at least one image tag the
\* content is exactly one link per image tag of the body, joined by bars,
\* and nothing of the body's text (it is never stripped as plain text).
C24_OneLinkPerImageTag ==
  (/\ Extracted
   /\ ThePart.part_type \notin SystemEventTypes
   /\ \E i \in 1..Len(ThePart.body) : ThePart.body[i].k = "img")
  => /\ ~thread.content.null
     /\ Kinds(thread.content) \subseteq {"link", "bar"}
     /\ Len(Tokens(thread.content))
          = Len(SelectSeq(ThePart.body, LAMBDA t : t.k = "img"))
     /\ BarJoined(thread.content)

\* the humanized size of the specification
Humanized(size) ==
  IF size < 1024 THEN ToString(size) \o " B"
  ELSE IF size < 1048576 THEN ToString(size \div 1024) \o " KB"
  ELSE ToString(size \div 1048576) \o " MB"

\* the part is rendered by the attachment path
AttachmentPath ==
  /\ Extracted
  /\ ThePart.part_type \notin SystemEventTypes
  /\ NonSpace(ThePart.body) \in {<<>>, <<Word("None")>>}
  /\ ThePart.attachments # <<>>

\* C25: every file attachment of size s >= 0 rendered by the attachment
\* path gets a token that carries its humanized size: s B below 1024,
\* floor(s/1024) KB below 1048576, floor(s/1048576) MB from there on.
C25_HumanizedFileSize ==
  AttachmentPath
  => /\ Len(Tokens(thread.content)) = Len(ThePart.attachments)
     /\ \A i \in 1..Len(ThePart.attachments) :
          LET a == ThePart.attachments[i]
          IN (a.type = "file" /\ a.size >= 0)
             => Tokens(thread.content)[i]
                  = [k |-> "file",
                     s |-> a.name \o " (" \o Humanized(a.size) \o ")"]

\* the positions whose fetch gave a summary, in the order of the list
ExpectedResults ==
  SelectSeq([p \in 1..bulk.n |-> p], LAMBDA p : bulk.outcome[p] = "summary")

\* a step that starts fetches
StartsFetches == \E p \in 1..bulk.n : bulk'.started[p] > bulk.started[p]

\* C26: the bulk fetch starts the fetch of every given id exactly once,
\* never has more than batch_size fetches in flight, starts a batch only
\* when every fetch of the batches before has finished and a delay has been
\* slept after each of them, sleeps no delay after the last batch, returns,
\* and returns the summaries of exactly the fetches that did not fail, in
\* the order of the ids.
C26_BatchedBulkFetch ==
  /\ [](bulk.pc # "none"
        => /\ \A p \in 1..bulk.n : bulk.started[p] <= 1
           /\ Cardinality(bulk.tasks) <= bulk.batch_size
           /\ bulk.pc = "done"
              => /\ \A p \in 1..bulk.n :
                      bulk.started[p] = 1 /\ bulk.outcome[p] # "pending"
                 /\ bulk.results = ExpectedResults
                 /\ bulk.batches > 0 => bulk.sleeps = bulk.batches - 1)
  /\ [][StartsFetches
        => /\ bulk.tasks = {}
           /\ \A q \in 1..bulk.n :
                bulk.started[q] > 0 => bulk.outcome[q] # "pending"
           /\ bulk.sleeps = bulk.batches]_vars
  /\ <>(bulk.pc # "none" => bulk.pc = "done")

\* a bulk fetch of several batches has returned, after a fetch of its first
\* batch failed and a fetch of a later batch gave a summary
C26_Witness ==
  /\ bulk.pc = "done"
  /\ bulk.batches >= 2
  /\ \E p, q \in 1..bulk.n :
       /\ p <= bulk.batch_size /\ bulk.outcome[p] = "Exception"
       /\ q > bulk.batch_size /\ bulk.outcome[q] = "summary"

\* C27: the key that quick_reply_callback parses out of the custom_id that
\* TicketView built for a key and a ticket id is that key, for every key
\* and every ticket id.
C27_ButtonIdRoundTrip ==
  button.pc = "parsed" => button.action = button.key

\* C28: once the handler of conversation.user.replied has found the ticket
\* and fetched the conversation, no Display Surface call ends it (a failed
\* call leads on to the status update), and when it ends the answer is
\* success and the row has status user_replied, also when the message is
\* gone or the surface failed.
C28_DisplayFailureSwallowed ==
  [][\A s \in Slots :
       (/\ h[s].topic = "conversation.user.replied"
        /\ Found(s) /\ Fetched(s) /\ h[s].pc # "done" /\ h'[s] # h[s])
       => /\ h[s].pc \in {"ur_fetchmsg", "ur_edit", "ur_notify"}
             => h'[s].pc \in {"ur_edit", "ur_notify", "update"}
          /\ h'[s].pc = "done"
             => /\ h'[s].resp = Success
                /\ tickets'[h[s].ticket_data.id].status = "user_replied"]_vars

\* the handler of conversation.user.replied has ended with success for a
\* ticket whose message was gone and for which the surface failed
C28_Witness ==
  \E s \in Slots :
    /\ h[s].pc = "done" /\ h[s].topic = "conversation.user.replied"
    /\ Found(s) /\ Fetched(s) /\ h[s].surface_failed
    /\ h[s].ticket_data.discord_message_id \notin DOMAIN channel
    /\ h[s].resp = Success
    /\ RowOf(s).status = "user_replied"

\* C29: when the fetch of the conversation fails in the handler of
\* conversation.user.created or conversation.user.replied, the handler ends
\* at once with an error result, and the step changes nothing: no message
\* is posted or edited, no row is added, and every row keeps its status.
C29_FetchFailureChangesNothing ==
  [][\A s \in Slots :
       (/\ h[s].pc \in {"nt_fetch", "ur_fetch"}
        /\ h'[s] # h[s]
        /\ h'[s].conversation_data = NoConversation)
       => /\ h'[s].pc = "done"
          /\ h'[s].resp.key = "error"
          /\ channel' = channel /\ nextMsg' = nextMsg
          /\ tickets' = tickets]_vars

\* the handler of conversation.user.replied has ended with an error for a
\* ticket it found and whose conversation could not be fetched; the row
\* and the message are as they were
C29_Witness ==
  \E s \in Slots :
    /\ h[s].pc = "done" /\ h[s].topic = "conversation.user.replied"
    /\ Found(s) /\ ~Fetched(s)
    /\ h[s].resp.key = "error"
    /\ RowOf(s) = h[s].ticket_data
    /\ h[s].ticket_data.discord_message_id \in DOMAIN channel

\* C30: when the handler of conversation.user.created has posted the ticket
\* message and the request has completed, the Ticket Store holds a row for
\* that conversation whose displayMessageId is that message, whatever the
\* length of the rendered body is.
C30_PostThenPersist ==
  \A s \in Slots :
    (/\ h[s].pc = "done" /\ h[s].topic = "conversation.user.created"
     /\ h[s].message # 0)
    => /\ HasTicketFor(tickets, h[s].conv)
       /\ get_ticket_by_conversation(tickets, h[s].conv).discord_message_id
            = h[s].message

\* the handler in slot s ends at the post, which failed
PostFails(s) ==
  h[s].pc = "nt_send" /\ h'[s].pc = "done" /\ h'[s].message = 0

\* C31: every Ticket row holds a message id (never null) that the Display
\* Surface handed out; a handler gets a message id only from a successful
\* post for its own conversation; a row gets its message id only from the
\* creation upsert of the handler that posted it, for that conversation;
\* and the step at which the post fails ends the handler without a row
\* being written.
C31_RowHoldsPostedMessage ==
  /\ [](\A k \in DOMAIN tickets :
          tickets[k].discord_message_id \in 1..(nextMsg - 1))
  /\ [][\A s \in Slots :
          (h'[s].message # h[s].message /\ h'[s].message # 0)
          => /\ h[s].pc = "nt_send" /\ h'[s].conv = h[s].conv
             /\ h'[s].message \notin DOMAIN channel
             /\ h'[s].message \in DOMAIN channel'
             /\ channel'[h'[s].message].conv = h[s].conv]_vars
  /\ [][\A k \in DOMAIN tickets' :
          (\/ k \notin DOMAIN tickets
           \/ tickets'[k].discord_message_id # tickets[k].discord_message_id)
          => \E s \in Slots :
               /\ h[s].pc = "nt_add" /\ h[s].message # 0
               /\ k = h[s].conv
               /\ tickets'[k].intercom_conversation_id = h[s].conv
               /\ tickets'[k].discord_message_id = h[s].message]_vars
  /\ [][\A s \in Slots : PostFails(s) => tickets' = tickets]_vars

\* the ticket of c1 has its row with the message posted for it, and the
\* post for c2 failed: c2 has no row
C31_Witness ==
  /\ "c1" \in DOMAIN tickets
  /\ tickets["c1"].discord_message_id \in DOMAIN channel
  /\ channel[tickets["c1"].discord_message_id].conv = "c1"
  /\ h["h1"].pc = "done" /\ h["h1"].conv = "c2"
  /\ h["h1"].topic = "conversation.user.created"
  /\ h["h1"].conversation_data # NoConversation /\ h["h1"].fresh
  /\ h["h1"].message = 0 /\ h["h1"].resp = [status |-> 200, key |-> "error"]
  /\ "c2" \notin DOMAIN tickets

\* the statuses the webhooks write when they remove the rendered message
RemovedStatuses == {"closed", "admin_replied"}

\* C32: when no webhook handler is in flight (all have completed), a
\* conversation whose Ticket row has status closed or admin_replied, written
\* by a webhook, has no live ticket message on the Display Surface.
C32_RemovedHasNoLiveMessage ==
  HandlersQuiet
  => \A k \in DOMAIN tickets :
       tickets[k].status \in RemovedStatuses
       => LiveFor(tickets[k].intercom_conversation_id) = {}

\* the request in slot s was handed to process_webhook: it is inside a topic
\* handler, or it was answered with the result process_webhook returned
Processed(s) ==
  /\ h[s].pc \notin {"idle", "received"}
  /\ h[s].pc = "done" => h[s].resp.status = 200

\* C33: a request is handed to process_webhook only if no secret is
\* configured or its signature header is the HMAC-SHA256 hex digest of its
\* raw body; with a secret configured, a request without the header is not
\* processed.
C33_ProcessedOnlyIfSigned ==
  \A s \in Slots :
    Processed(s)
    => \/ secret = ""
       \/ h[s].request.signature.present /\ SignatureMatches(h[s].request)

\* C34: every part that is not a system event and has a non-empty attachment
\* list has an entry in the reconstructed thread, whatever its body is, and
\* so has an initial message with attachments.
C34_AttachmentsAreRetained ==
  thread.status = "ok"
  => /\ \A i \in 1..Len(conversation.parts) :
          (/\ ~is_system_message(conversation.parts[i].part_type)
           /\ conversation.parts[i].attachments # <<>>)
          => i \in RetainedIndexes
     /\ conversation.source.attachments # <<>> => 0 \in RetainedIndexes

\* C35: every step of a quick-reply callback (its definition's close_ticket
\* flag set) whose send_reply returned True and whose close_conversation
\* returned False leaves the Ticket Store and the Display Surface as they
\* are: the status stays replied, as the callback wrote it before the close,
\* closed is never written, and the rendered message is not removed; when
\* the callback ends (the answer having been delivered) the actor was told
\* that the reply was sent and the close failed.
C35_CloseFailureAfterReply ==
  [][\A u \in UiSlots :
       (/\ ui'[u] # ui[u] /\ ui'[u].kind = "quick"
        /\ ui'[u].success = "True" /\ ui'[u].close_success = "False")
       => /\ QUICK_REPLIES[ui'[u].action].close_ticket
          /\ tickets' = tickets /\ channel' = channel
          /\ ui'[u].effects = <<"reply", "replied", "close">>
          /\ ui'[u].ticket_id \in DOMAIN tickets
             => tickets'[ui'[u].ticket_id].status = "replied"
          /\ ui'[u].message \in DOMAIN channel'
          /\ ui'[u].pc \in {"respond", "done"}
          /\ (ui'[u].pc = "done" /\ ~ui'[u].surface_failed)
             => ui'[u].told = "sent_close_failed"]_vars

\* a closing quick reply was sent, the close was refused: the ticket is
\* replied, its message is still there and the actor was told
C35_Witness ==
  \E u \in UiSlots :
    /\ ui[u].pc = "done" /\ ui[u].kind = "quick"
    /\ ui[u].action = <<"resolved">>
    /\ ui[u].success = "True" /\ ui[u].close_success = "False"
    /\ ui[u].told = "sent_close_failed"
    /\ ui[u].ticket_id \in DOMAIN tickets
    /\ tickets[ui[u].ticket_id].status = "replied"
    /\ ui[u].message \in DOMAIN channel

\* C36: a step of the Close Ticket callback changes the Ticket Store or the
\* Display Surface only after close_conversation returned True: it then
\* writes closed to the ticket's row and removes the rendered message, and
\* a message that is already gone is passed over (the actor is told of the
\* closure all the same); when close_conversation returned False or failed,
\* no step changes the row or the message, and the actor is told of the
\* failure.
C36_CloseOnlyOnRemoteSuccess ==
  [][\A u \in UiSlots :
       (ui'[u] # ui[u] /\ ui'[u].kind = "close" /\ ui[u].pc # "done")
       => /\ (tickets' # tickets \/ channel' # channel)
             => ui[u].close_success = "True"
          /\ ui[u].pc = "mark_closed"
             => /\ ui[u].close_success = "True"
                /\ ui[u].ticket_id \in DOMAIN tickets
                   => tickets'[ui[u].ticket_id].status = "closed"
          /\ (ui'[u].close_success = "True" /\ ui'[u].pc = "done"
               /\ ~ui'[u].surface_failed)
             => /\ SubSeq(ui'[u].effects, 1, 2) = <<"close", "closed">>
                /\ ui'[u].message \notin DOMAIN channel'
                /\ ui'[u].told = "closed"
          /\ ui'[u].close_success \in {"False", "ClientError"}
             => /\ tickets' = tickets /\ channel' = channel
                /\ ui'[u].effects = <<"close">>
                /\ ui'[u].pc \in {"respond", "done"}
                /\ (ui'[u].pc = "done" /\ ~ui'[u].surface_failed)
                   => ui'[u].told =
                        (IF ui'[u].close_success = "False"
                           THEN "close_failed" ELSE "error")]_vars

\* Close Ticket went through although a webhook had removed the message in
\* the meantime: the row is closed and the actor was told of the closure
C36_Witness ==
  \E u \in UiSlots :
    /\ ui[u].pc = "done" /\ ui[u].kind = "close"
    /\ ui[u].close_success = "True"
    /\ ui[u].effects = <<"close", "closed">>
    /\ ~ui[u].surface_failed /\ ui[u].told = "closed"
    /\ ui[u].ticket_id \in DOMAIN tickets
    /\ ui[u].message \notin DOMAIN channel

\* the day of the year of a datetime
RECURSIVE DaysBefore(_)
DaysBefore(month) ==
  IF month = 1 THEN 0 ELSE DaysBefore(month - 1) + DaysInMonth(month - 1)
DayOfYear(datetime) == DaysBefore(datetime.month) + datetime.day

\* the row was last updated before midnight of the date days days before
\* today
OlderThan(row, today, days) ==
  DayOfYear(row.last_updated) < DayOfYear(today) - days

\* the sweep deletes the rows that are older than days days, and only them
SweepIsExact ==
  [][(sweep.pc = "delete" /\ sweep'.pc = "done")
     => LET kept == {k \in DOMAIN tickets :
                       ~OlderThan(tickets[k], sweep.now, sweep.days)}
        IN tickets' = [k \in kept |-> tickets[k]]]_vars

\* C37: for every date and every days >= 0 the sweep completes without
\* error, and it deletes exactly the rows whose lastUpdated is earlier than
\* midnight of the date days days before today.
C37_SweepCompletesAndIsExact ==
  /\ [](sweep.pc # "raised")
  /\ SweepIsExact

\* the conversation is open, has no recorded admin-reply time and is not
\* starred
Eligible(conv) ==
  conv.open /\ ~conv.time_to_admin_reply.recorded /\ ~conv.starred

\* the eligible conversations of page i and of the pages reachable from it
\* through the next cursor, up to the first page that fails or carries no
\* usable cursor
RECURSIVE ListedFrom(_, _)
ListedFrom(pages, i) ==
  IF Response(pages, i).status # 200 THEN <<>>
  ELSE SelectSeq(pages[i].conversations, Eligible)
       \o (IF pages[i].next = "str" THEN ListedFrom(pages, i + 1) ELSE <<>>)

\* C38: the listing returns exactly the open, never-replied, unstarred
\* conversations of the first page and of every page reachable through the
\* next cursor, stopping at the first page that fails or has no usable
\* cursor; and it never raises: a first request that is not answered 200
\* ends with a returned value.
C38_ListingIsExactAndTotal ==
  /\ listing.pc # "raised"
  /\ listing.pc = "returned"
     => listing.conversations = ListedFrom(listing.pages, 1)
====
